---------------------------- MODULE Spec2Model ----------------------------
(***************************************************************************)
(* Model of the presentation-assembly engine of the Google Slides MCP      *)
(* server: src/src/tools/createPresentationFromContent.ts.                 *)
(*                                                                         *)
(* Texts are sequences of one-character strings, so that trim() and the    *)
(* joins of buildSlideBodyText are computed and not assumed.  An optional  *)
(* field that is absent (undefined) is the value Undefined.  An objectId   *)
(* is a string; a missing objectId (null / undefined) is NoId.             *)
(***************************************************************************)
EXTENDS Integers, Sequences, FiniteSets, TLC

VARIABLES
    args,            \* the parsed request: title, slides, templatePresentationId
    drive,           \* options.drive is set
    pc,              \* where the request is (the awaits of the two paths)
    doc,             \* the remote store: pages of the presentation of this request
    nextId,          \* the remote store: counter of the ids it hands out
    presentationId,  \* const presentationId
    templateSlides,  \* first read (createFromTemplate)
    requests,        \* structural batch (template path) / the one batch (blank path)
    finalSlides,     \* second read (createFromTemplate)
    fillRequests,    \* fill batch (createFromTemplate)
    result,          \* the value the promise resolves to
    error,           \* the value the promise rejects with
    calls,           \* remote calls issued so far, in order
    slide,           \* input of buildSlideBodyText (pure-function check)
    slideBody,       \* its output
    pageElements,    \* input of the placeholder classification (pure-function check)
    placeholders,    \* its output
    running,         \* two calls of createPresentationFromContent in flight at once
    store,           \* the presentations the two calls can reach, by file id
    entry,           \* the entry point a request came in by
    body,            \* the request body or tool arguments, before validation
    response,        \* what the entry point answered
    rpc,             \* the JSON-RPC body of a request to handleMcpRequest
    responses        \* the responses handleMcpRequest has sent, in order

engineVars == <<args, drive, pc, doc, nextId, presentationId, templateSlides,
                requests, finalSlides, fillRequests, result, error, calls>>
textVars == <<slide, slideBody>>
resolverVars == <<pageElements, placeholders>>
concurrentVars == <<running, store>>
entryVars == <<entry, body, response, rpc, responses>>
vars == <<engineVars, textVars, resolverVars, concurrentVars, entryVars>>

---------------------------------------------------------------------------
(* Bounds of the model *)

MaxSlides == 3
MaxPages == 4
MaxLen == 2
MaxBullets == 2
MaxEls == 4

---------------------------------------------------------------------------
(* Constants of the program *)

TEMPLATE_CONTENT_LAYOUT_INDEX == 1
PAGE_WIDTH_PT == 720
PAGE_HEIGHT_PT == 540
MARGIN_PT == 40
TITLE_HEIGHT_PT == 60
BODY_TOP_PT == 120
CONTENT_WIDTH_PT == PAGE_WIDTH_PT - 2 * MARGIN_PT

\* an optional string that is absent, and an optional string array that is absent
Undefined == <<"undefined">>
UndefinedList == <<Undefined>>
NoId == ""

\* A character outside ASCII is written as its code point.  The template
\* literal of line 22 holds, before the space, the three characters
\* U+00E2 U+20AC U+00A2 (bytes c3 a2 e2 82 ac c2 a2), not U+2022.
BulletPrefix == <<"U+00E2", "U+20AC", "U+00A2">>
\* the bullet glyph, U+2022 BULLET
BulletGlyph == <<"U+2022">>

---------------------------------------------------------------------------
(* Strings *)

IsWhiteSpace(c) == c \in {" ", "\n", "\t"}

RECURSIVE TrimStart(_)
TrimStart(s) ==
    IF s = <<>> THEN <<>>
    ELSE IF IsWhiteSpace(Head(s)) THEN TrimStart(Tail(s))
    ELSE s

RECURSIVE TrimEnd(_)
TrimEnd(s) ==
    IF s = <<>> THEN <<>>
    ELSE IF IsWhiteSpace(s[Len(s)]) THEN TrimEnd(SubSeq(s, 1, Len(s) - 1))
    ELSE s

\* String.prototype.trim
Trim(s) == TrimEnd(TrimStart(s))

\* Array.prototype.join
RECURSIVE Join(_, _)
Join(parts, sep) ==
    IF parts = <<>> THEN <<>>
    ELSE IF Len(parts) = 1 THEN parts[1]
    ELSE parts[1] \o sep \o Join(Tail(parts), sep)

\* x?.trim() where x is an optional string: undefined stays undefined
OptTrim(s) == IF s = Undefined THEN Undefined ELSE Trim(s)

\* truthiness of an optional string: undefined and '' are falsy
Truthy(s) == s # Undefined /\ s # <<>>

---------------------------------------------------------------------------
(* buildSlideBodyText *)

\* slide.bullets.map((b) => `<prefix> ${b.trim()}`)
BulletLine(b) == BulletPrefix \o <<" ">> \o Trim(b)

BulletLines(bs) == [i \in 1..Len(bs) |-> BulletLine(bs[i])]

buildSlideBodyText(s) ==
    LET p1 == IF Truthy(OptTrim(s.subtitle)) THEN <<Trim(s.subtitle)>> ELSE <<>>
        p2 == IF Truthy(OptTrim(s.body)) THEN <<Trim(s.body)>> ELSE <<>>
        p3 == IF s.bullets # UndefinedList /\ Len(s.bullets) > 0
              THEN <<Join(BulletLines(s.bullets), <<"\n">>)>> ELSE <<>>
    IN Join(p1 \o p2 \o p3, <<"\n", "\n">>)

\* slides[i] ?? {} and the fields a slide may leave out
EmptySlide == [title |-> Undefined, subtitle |-> Undefined, body |-> Undefined,
               bullets |-> UndefinedList]

---------------------------------------------------------------------------
(* Placeholder classification *)

PlaceholderTypes == {"TITLE", "BODY", "SUBTITLE", "NONE"}

\* the loop of getTitleAndBodyPlaceholders over pageElements[i..]
RECURSIVE ScanPlaceholders(_, _, _)
ScanPlaceholders(els, i, acc) ==
    IF i > Len(els) THEN acc
    ELSE LET el == els[i]
             t == IF el.objectId # NoId /\ el.type = "TITLE"
                  THEN el.objectId ELSE acc.title
             b == IF el.objectId # NoId /\ el.type \in {"BODY", "SUBTITLE"}
                     /\ acc.body = NoId
                  THEN el.objectId ELSE acc.body
         IN ScanPlaceholders(els, i + 1, [title |-> t, body |-> b])

\* mutant: the positional fallback takes the element at index 0
getTitleAndBodyPlaceholdersFallbackAt0(els) ==
    LET hinted == ScanPlaceholders(els, 1, [title |-> NoId, body |-> NoId])
    IN IF hinted.body = NoId /\ Len(els) >= 2 /\ els[1].objectId # NoId
       THEN [hinted EXCEPT !.body = els[1].objectId]
       ELSE hinted

\* mutant: the position is tried before the hints
getTitleAndBodyPlaceholdersPositionFirst(els) ==
    LET hinted == ScanPlaceholders(els, 1, [title |-> NoId, body |-> NoId])
    IN IF Len(els) >= 2 /\ els[2].objectId # NoId
       THEN [hinted EXCEPT !.body = els[2].objectId]
       ELSE hinted

\* mutant: the first TITLE-hinted element is kept (title = title ?? ...)
RECURSIVE ScanPlaceholdersFirstTitle(_, _, _)
ScanPlaceholdersFirstTitle(els, i, acc) ==
    IF i > Len(els) THEN acc
    ELSE LET el == els[i]
             t == IF el.objectId # NoId /\ el.type = "TITLE" /\ acc.title = NoId
                  THEN el.objectId ELSE acc.title
             b == IF el.objectId # NoId /\ el.type \in {"BODY", "SUBTITLE"}
                     /\ acc.body = NoId
                  THEN el.objectId ELSE acc.body
         IN ScanPlaceholdersFirstTitle(els, i + 1, [title |-> t, body |-> b])

getTitleAndBodyPlaceholdersFirstTitle(els) ==
    LET hinted == ScanPlaceholdersFirstTitle(els, 1, [title |-> NoId, body |-> NoId])
    IN IF hinted.body = NoId /\ Len(els) >= 2 /\ els[2].objectId # NoId
       THEN [hinted EXCEPT !.body = els[2].objectId]
       ELSE hinted

\* title / body are the objectId of the chosen element, NoId for null
getTitleAndBodyPlaceholders(els) ==
    LET hinted == ScanPlaceholders(els, 1, [title |-> NoId, body |-> NoId])
    IN IF hinted.body = NoId /\ Len(els) >= 2 /\ els[2].objectId # NoId
       THEN [hinted EXCEPT !.body = els[2].objectId]
       ELSE hinted

\* the loop of createPresentationFromContent over the first slide's elements
RECURSIVE ScanFirstSlide(_, _, _)
ScanFirstSlide(els, i, acc) ==
    IF i > Len(els) THEN acc
    ELSE LET el == els[i]
             t == IF el.type = "TITLE" THEN el.objectId ELSE acc.title
             b == IF el.type \in {"BODY", "SUBTITLE"}
                  THEN (IF el.objectId # NoId THEN el.objectId ELSE acc.body)
                  ELSE acc.body
         IN ScanFirstSlide(els, i + 1, [title |-> t, body |-> b])

\* titleObjectId / bodyObjectId of the blank path
firstSlidePlaceholders(els) ==
    LET hinted == ScanFirstSlide(els, 1, [title |-> NoId, body |-> NoId])
    IN IF hinted.body = NoId /\ Len(els) >= 2
       THEN [hinted EXCEPT !.body = els[2].objectId]
       ELSE hinted

---------------------------------------------------------------------------
(* Requests of a batchUpdate.  Every request is a record of the same shape; *)
(* a field a request kind does not have holds NoId, Undefined or -1.        *)

Req(kind, objectId, text, index, page, top, height) ==
    [kind |-> kind, objectId |-> objectId, text |-> text, insertionIndex |-> index,
     pageObjectId |-> page, translateY |-> top, height |-> height]

DuplicateObject(id) == Req("duplicateObject", id, Undefined, -1, NoId, -1, -1)
DeleteObject(id) == Req("deleteObject", id, Undefined, -1, NoId, -1, -1)
\* deleteText with textRange { type: 'ALL' }
DeleteText(id) == Req("deleteText", id, Undefined, -1, NoId, -1, -1)
\* insertText with insertionIndex 0
InsertText(id, text) == Req("insertText", id, text, 0, NoId, -1, -1)
\* createSlide with predefinedLayout BLANK
CreateSlide(id, index) == Req("createSlide", id, Undefined, index, NoId, -1, -1)
\* createShape of a TEXT_BOX of width CONTENT_WIDTH_PT at x = MARGIN_PT
CreateShape(id, page, top, height) ==
    Req("createShape", id, Undefined, -1, page, top, height)

---------------------------------------------------------------------------
(* The remote store: a presentation is a sequence of pages                 *)
(* [objectId, pageElements], an element is [objectId, type].               *)

PageIds(pages) == {pages[i].objectId : i \in 1..Len(pages)} \ {NoId}

ElementIds(page) ==
    {page.pageElements[j].objectId : j \in 1..Len(page.pageElements)} \ {NoId}

AllElementIds(pages) == UNION {ElementIds(pages[i]) : i \in 1..Len(pages)}

PageIndex(pages, id) == CHOOSE i \in 1..Len(pages) : pages[i].objectId = id

InsertAt(seq, i, x) == SubSeq(seq, 1, i - 1) \o <<x>> \o SubSeq(seq, i, Len(seq))

RemoveAt(seq, i) == SubSeq(seq, 1, i - 1) \o SubSeq(seq, i + 1, Len(seq))

\* the copy of a page the store makes: new ids, same placeholder types
DuplicateOf(page, n) ==
    [objectId |-> "copy" \o ToString(n),
     pageElements |->
        [j \in 1..Len(page.pageElements) |->
            [objectId |-> IF page.pageElements[j].objectId = NoId THEN NoId
                          ELSE "copy" \o ToString(n) \o "_" \o ToString(j),
             type |-> page.pageElements[j].type]]]

\* One request applied to the store's state st = [ok, pages, next].  A request
\* that names an object the presentation does not hold is an error.
ApplyRequest(st, r) ==
    LET pages == st.pages
        bad == [st EXCEPT !.ok = FALSE]
    IN CASE r.kind = "duplicateObject" ->
              IF r.objectId \notin PageIds(pages) THEN bad
              ELSE LET i == PageIndex(pages, r.objectId)
                   IN [ok |-> TRUE,
                       pages |-> InsertAt(pages, i + 1, DuplicateOf(pages[i], st.next)),
                       next |-> st.next + 1]
         [] r.kind = "deleteObject" ->
              IF r.objectId \notin PageIds(pages) THEN bad
              ELSE [st EXCEPT !.pages = RemoveAt(pages, PageIndex(pages, r.objectId))]
         [] r.kind = "createSlide" ->
              IF r.objectId \in PageIds(pages) \cup AllElementIds(pages)
                 \/ r.insertionIndex > Len(pages)
              THEN bad
              ELSE [st EXCEPT !.pages =
                       InsertAt(pages, r.insertionIndex + 1,
                                [objectId |-> r.objectId, pageElements |-> <<>>])]
         [] r.kind = "createShape" ->
              IF r.objectId \in PageIds(pages) \cup AllElementIds(pages)
                 \/ r.pageObjectId \notin PageIds(pages)
              THEN bad
              ELSE LET i == PageIndex(pages, r.pageObjectId)
                   IN [st EXCEPT !.pages[i].pageElements =
                          Append(@, [objectId |-> r.objectId, type |-> "NONE"])]
         [] r.kind \in {"deleteText", "insertText"} ->
              IF r.objectId \notin AllElementIds(pages) THEN bad ELSE st

\* presentations.batchUpdate: the requests in order, all or nothing
RECURSIVE ApplyBatch(_, _)
ApplyBatch(st, reqs) ==
    IF reqs = <<>> \/ ~st.ok THEN st
    ELSE ApplyBatch(ApplyRequest(st, Head(reqs)), Tail(reqs))

---------------------------------------------------------------------------
(* createFromTemplate: the structural batch and the fill batch *)

\* mutant: one duplicate for each content slide
DuplicateRequestsPerSlide(n, contentLayoutSlideId) ==
    [i \in 1..n |-> DuplicateObject(contentLayoutSlideId)]

\* N - 1 duplicates of the content-layout slide
DuplicateRequests(n, contentLayoutSlideId) ==
    [i \in 1..(n - 1) |-> DuplicateObject(contentLayoutSlideId)]

\* mutant: the delete loop runs through the last slide
RECURSIVE DeleteRequestsThroughLast(_, _)
DeleteRequestsThroughLast(tslides, i) ==
    IF i >= Len(tslides) THEN <<>>
    ELSE (IF tslides[i + 1].objectId # NoId
          THEN <<DeleteObject(tslides[i + 1].objectId)>> ELSE <<>>)
         \o DeleteRequestsThroughLast(tslides, i + 1)

\* a delete for each slide at index 2 .. length-2 that has an objectId
RECURSIVE DeleteRequests(_, _)
DeleteRequests(tslides, i) ==
    IF i >= Len(tslides) - 1 THEN <<>>
    ELSE (IF tslides[i + 1].objectId # NoId
          THEN <<DeleteObject(tslides[i + 1].objectId)>> ELSE <<>>)
         \o DeleteRequests(tslides, i + 1)

\* mutant: the deck title is written in the structural batch
StructuralRequestsWithText(tslides, n) ==
    DuplicateRequests(n, tslides[TEMPLATE_CONTENT_LAYOUT_INDEX + 1].objectId)
        \o DeleteRequests(tslides, 2)
        \o <<InsertText("p0_e1", args.title)>>

\* mutant: the deletes are pushed before the duplicates
StructuralRequestsDeletesFirst(tslides, n) ==
    DeleteRequests(tslides, 2)
        \o DuplicateRequests(n, tslides[TEMPLATE_CONTENT_LAYOUT_INDEX + 1].objectId)

StructuralRequests(tslides, n) ==
    DuplicateRequests(n, tslides[TEMPLATE_CONTENT_LAYOUT_INDEX + 1].objectId)
        \o DeleteRequests(tslides, 2)

\* finalSlides[i]?.pageElements, i counted from 0
ElementsAt(pages, i) == IF i + 1 <= Len(pages) THEN pages[i + 1].pageElements ELSE <<>>

\* slideContent?.title?.trim() ?? ''
SlideTitle(s) == IF s.title = Undefined THEN <<>> ELSE Trim(s.title)

\* mutant: the first slide is filled like a content slide, body included
TitleSlideFillWithBody(fslides, title) ==
    LET ph == getTitleAndBodyPlaceholders(ElementsAt(fslides, 0))
    IN (IF ph.title # NoId
        THEN <<DeleteText(ph.title), InsertText(ph.title, title)>>
        ELSE <<>>)
       \o (IF ph.body # NoId
           THEN <<DeleteText(ph.body), InsertText(ph.body, title)>>
           ELSE <<>>)

\* mutant: the title of the first slide is inserted without the delete
TitleSlideFillInsertOnly(fslides, title) ==
    LET ph == getTitleAndBodyPlaceholders(ElementsAt(fslides, 0))
    IN IF ph.title # NoId THEN <<InsertText(ph.title, title)>> ELSE <<>>

\* first slide: only the presentation title
TitleSlideFill(fslides, title) ==
    LET ph == getTitleAndBodyPlaceholders(ElementsAt(fslides, 0))
    IN IF ph.title # NoId
       THEN <<DeleteText(ph.title), InsertText(ph.title, title)>>
       ELSE <<>>

\* mutant: the body is filled whenever there is a body target (if (bPh))
ContentSlideFillAnyBody(fslides, slides, i) ==
    LET slideBodyText == buildSlideBodyText(slides[i + 1])
        ph == getTitleAndBodyPlaceholders(ElementsAt(fslides, 1 + i))
    IN (IF ph.title # NoId
        THEN <<DeleteText(ph.title), InsertText(ph.title, SlideTitle(slides[i + 1]))>>
        ELSE <<>>)
       \o (IF ph.body # NoId
           THEN <<DeleteText(ph.body), InsertText(ph.body, slideBodyText)>>
           ELSE <<>>)

\* mutant: the title is filled only when it is not empty (if (tPh && slideTitle))
ContentSlideFillSkipEmptyTitle(fslides, slides, i) ==
    LET slideBodyText == buildSlideBodyText(slides[i + 1])
        ph == getTitleAndBodyPlaceholders(ElementsAt(fslides, 1 + i))
    IN (IF ph.title # NoId /\ SlideTitle(slides[i + 1]) # <<>>
        THEN <<DeleteText(ph.title), InsertText(ph.title, SlideTitle(slides[i + 1]))>>
        ELSE <<>>)
       \o (IF ph.body # NoId /\ slideBodyText # <<>>
           THEN <<DeleteText(ph.body), InsertText(ph.body, slideBodyText)>>
           ELSE <<>>)

\* mutant: the title is written without looking for a title target
ContentSlideFillUnguarded(fslides, slides, i) ==
    LET slideBodyText == buildSlideBodyText(slides[i + 1])
        ph == getTitleAndBodyPlaceholders(ElementsAt(fslides, 1 + i))
    IN <<DeleteText(ph.title), InsertText(ph.title, SlideTitle(slides[i + 1]))>>
       \o (IF ph.body # NoId /\ slideBodyText # <<>>
           THEN <<DeleteText(ph.body), InsertText(ph.body, slideBodyText)>>
           ELSE <<>>)

\* mutant: slide i is written to the page at index i
ContentSlideFillPageBefore(fslides, slides, i) ==
    LET slideBodyText == buildSlideBodyText(slides[i + 1])
        ph == getTitleAndBodyPlaceholders(ElementsAt(fslides, i))
    IN (IF ph.title # NoId
        THEN <<DeleteText(ph.title), InsertText(ph.title, SlideTitle(slides[i + 1]))>>
        ELSE <<>>)
       \o (IF ph.body # NoId /\ slideBodyText # <<>>
           THEN <<DeleteText(ph.body), InsertText(ph.body, slideBodyText)>>
           ELSE <<>>)

\* the body of the loop over the content slides, i counted from 0
ContentSlideFill(fslides, slides, i) ==
    LET slideBodyText == buildSlideBodyText(slides[i + 1])
        ph == getTitleAndBodyPlaceholders(ElementsAt(fslides, 1 + i))
    IN (IF ph.title # NoId
        THEN <<DeleteText(ph.title), InsertText(ph.title, SlideTitle(slides[i + 1]))>>
        ELSE <<>>)
       \o (IF ph.body # NoId /\ slideBodyText # <<>>
           THEN <<DeleteText(ph.body), InsertText(ph.body, slideBodyText)>>
           ELSE <<>>)

RECURSIVE ContentFill(_, _, _)
ContentFill(fslides, slides, i) ==
    IF i >= Len(slides) THEN <<>>
    ELSE ContentSlideFill(fslides, slides, i) \o ContentFill(fslides, slides, i + 1)

\* mutant: the fill is planned from the first read
FillRequestsFromFirstRead(fslides, a) ==
    TitleSlideFill(templateSlides, a.title) \o ContentFill(templateSlides, a.slides, 0)

FillRequests(fslides, a) ==
    TitleSlideFill(fslides, a.title) \o ContentFill(fslides, a.slides, 0)

---------------------------------------------------------------------------
(* createPresentationFromContent without a Drive client: the one batch *)

\* mutant: the first slide always gets the deck title
FirstTitleDeckTitle(a) == a.title

\* first?.title?.trim() ?? title
FirstTitle(a) ==
    IF a.slides[1].title = Undefined THEN a.title ELSE Trim(a.slides[1].title)

\* the inserts into the placeholders of the first slide
FirstSlideRequests(els, a) ==
    LET ph == firstSlidePlaceholders(els)
        firstBody == buildSlideBodyText(a.slides[1])
    IN (IF ph.title # NoId THEN <<InsertText(ph.title, FirstTitle(a))>> ELSE <<>>)
       \o (IF ph.body # NoId /\ firstBody # <<>>
           THEN <<InsertText(ph.body, firstBody)>> ELSE <<>>)

\* mutant: the text of a new slide is pushed before its slide and boxes
NewSlideRequestsTextFirst(slides, i) ==
    LET slideId == "slide_" \o ToString(i + 1)
        titleBoxId == "title_" \o ToString(i + 1)
        bodyBoxId == "body_" \o ToString(i + 1)
        slideTitle == SlideTitle(slides[i + 1])
        slideBodyText == buildSlideBodyText(slides[i + 1])
    IN (IF slideTitle # <<>> THEN <<InsertText(titleBoxId, slideTitle)>> ELSE <<>>)
       \o (IF slideBodyText # <<>> THEN <<InsertText(bodyBoxId, slideBodyText)>> ELSE <<>>)
       \o <<CreateSlide(slideId, i),
            CreateShape(titleBoxId, slideId, MARGIN_PT, TITLE_HEIGHT_PT),
            CreateShape(bodyBoxId, slideId, BODY_TOP_PT,
                        PAGE_HEIGHT_PT - BODY_TOP_PT - MARGIN_PT)>>

\* mutant: every new slide is inserted at index 1
NewSlideRequestsAtIndex1(slides, i) ==
    LET slideId == "slide_" \o ToString(i + 1)
        titleBoxId == "title_" \o ToString(i + 1)
        bodyBoxId == "body_" \o ToString(i + 1)
        slideTitle == SlideTitle(slides[i + 1])
        slideBodyText == buildSlideBodyText(slides[i + 1])
    IN <<CreateSlide(slideId, 1),
         CreateShape(titleBoxId, slideId, MARGIN_PT, TITLE_HEIGHT_PT),
         CreateShape(bodyBoxId, slideId, BODY_TOP_PT,
                     PAGE_HEIGHT_PT - BODY_TOP_PT - MARGIN_PT)>>
       \o (IF slideTitle # <<>> THEN <<InsertText(titleBoxId, slideTitle)>> ELSE <<>>)
       \o (IF slideBodyText # <<>> THEN <<InsertText(bodyBoxId, slideBodyText)>> ELSE <<>>)

\* the body of the loop over slides[1..], i counted from 0
NewSlideRequests(slides, i) ==
    LET slideId == "slide_" \o ToString(i + 1)
        titleBoxId == "title_" \o ToString(i + 1)
        bodyBoxId == "body_" \o ToString(i + 1)
        slideTitle == SlideTitle(slides[i + 1])
        slideBodyText == buildSlideBodyText(slides[i + 1])
    IN <<CreateSlide(slideId, i),
         CreateShape(titleBoxId, slideId, MARGIN_PT, TITLE_HEIGHT_PT),
         CreateShape(bodyBoxId, slideId, BODY_TOP_PT,
                     PAGE_HEIGHT_PT - BODY_TOP_PT - MARGIN_PT)>>
       \o (IF slideTitle # <<>> THEN <<InsertText(titleBoxId, slideTitle)>> ELSE <<>>)
       \o (IF slideBodyText # <<>> THEN <<InsertText(bodyBoxId, slideBodyText)>> ELSE <<>>)

RECURSIVE NewSlides(_, _)
NewSlides(slides, i) ==
    IF i >= Len(slides) THEN <<>>
    ELSE NewSlideRequests(slides, i) \o NewSlides(slides, i + 1)

BlankRequests(pages, a) ==
    FirstSlideRequests(ElementsAt(pages, 0), a) \o NewSlides(a.slides, 1)

---------------------------------------------------------------------------
(* The inputs: requests the schema accepts, and presentations the store may *)
(* hold after the copy or the create.                                       *)

DeckTitle == <<"D">>

FullSlide == [title |-> <<" ", "T", " ">>, subtitle |-> <<"s">>, body |-> <<"x">>,
              bullets |-> << <<"a">>, <<"b">> >>]
WhiteSlide == [title |-> Undefined, subtitle |-> <<" ">>, body |-> <<>>,
               bullets |-> <<>>]
EmptyBulletSlide == [title |-> <<>>, subtitle |-> Undefined, body |-> Undefined,
                     bullets |-> << <<>> >>]

SlideSet == {FullSlide, WhiteSlide, EmptyBulletSlide, EmptySlide}

SlideLists == UNION {[1..n -> SlideSet] : n \in 1..MaxSlides}

TemplateIds == {Undefined, <<"t">>}

ArgsSet == [title : {DeckTitle}, slides : SlideLists,
            templatePresentationId : TemplateIds]

El(type, hasId) == [type |-> type, hasId |-> hasId]

PageShapes ==
    { <<El("TITLE", TRUE), El("SUBTITLE", TRUE)>>,
      <<El("NONE", TRUE), El("TITLE", TRUE)>>,
      <<El("TITLE", TRUE), El("TITLE", TRUE), El("BODY", FALSE), El("BODY", TRUE)>>,
      <<El("NONE", TRUE), El("NONE", TRUE)>>,
      <<El("NONE", TRUE), El("NONE", FALSE)>> }

MiddleShape == <<El("TITLE", TRUE), El("BODY", TRUE)>>
ClosingShape == <<El("TITLE", TRUE)>>

\* page number i (from 0) of a presentation the store holds
MkPage(i, hasId, shape) ==
    [objectId |-> IF hasId THEN "p" \o ToString(i) ELSE NoId,
     pageElements |->
        [j \in 1..Len(shape) |->
            [objectId |-> IF shape[j].hasId
                          THEN "p" \o ToString(i) \o "_e" \o ToString(j) ELSE NoId,
             type |-> shape[j].type]]]

Template(P, s0, s1, layoutHasId, midHasId) ==
    [i \in 1..P |->
        IF i = 1 THEN MkPage(0, TRUE, s0)
        ELSE IF i = 2 THEN MkPage(1, layoutHasId, s1)
        ELSE IF i = P THEN MkPage(P - 1, TRUE, ClosingShape)
        ELSE MkPage(i - 1, midHasId[i], MiddleShape)]

\* what the copy of a template may hold: 2 .. MaxPages slides
Templates ==
    UNION { { Template(P, s0, s1, lid, mid) :
                s0 \in PageShapes, s1 \in PageShapes, lid \in BOOLEAN,
                mid \in [3..(P - 1) -> BOOLEAN] } : P \in 2..MaxPages }

\* what a newly created presentation may hold: no slide, or one slide
BlankDocs == {<<>>} \cup {<<MkPage(0, TRUE, s0)>> : s0 \in PageShapes}

DEFAULT_TEMPLATE_ID == <<"d">>

NoResult == [presentationId |-> NoId, editUrl |-> NoId, title |-> Undefined]
NoError == [message |-> "", handled |-> FALSE]
NoPlaceholders == [path |-> "none", title |-> NoId, body |-> NoId]

\* a remote call: the method, the file or presentation it names, the requests
\* of a batchUpdate, and whether it returned (TRUE) or threw (FALSE)
Call(api, target, reqs, ok) == [api |-> api, target |-> target, requests |-> reqs, ok |-> ok]

EditUrl(id) == "https://docs.google.com/presentation/d/" \o id \o "/edit"

---------------------------------------------------------------------------
(* The request: one action for each await of createPresentationFromContent *)
(* and createFromTemplate.                                                  *)

Init ==
    /\ args \in ArgsSet
    /\ drive \in BOOLEAN
    /\ pc = "start"
    /\ doc = <<>>
    /\ nextId = 1
    /\ presentationId = NoId
    /\ templateSlides = <<>>
    /\ requests = <<>>
    /\ finalSlides = <<>>
    /\ fillRequests = <<>>
    /\ result = NoResult
    /\ error = NoError
    /\ calls = <<>>
    /\ slide = EmptySlide
    /\ slideBody = Undefined
    /\ pageElements = <<>>
    /\ placeholders = NoPlaceholders
    /\ running = <<>>
    /\ store = <<>>
    /\ entry = "none"
    /\ body = <<>>
    /\ response = "none"
    /\ rpc = <<>>
    /\ responses = <<>>

pureVars == <<textVars, resolverVars, concurrentVars, entryVars>>

\* mutant: a failure inside createFromTemplate starts the request again
ThrowFromTemplateRetry(message) ==
    /\ pc' = "start"
    /\ error' = [message |-> message, handled |-> FALSE]

\* An error thrown inside createFromTemplate: the promise is returned from the
\* try block without await, so the catch of line 288 does not see it.
ThrowFromTemplate(message) ==
    /\ pc' = "failed"
    /\ error' = [message |-> message, handled |-> FALSE]

\* mutant: a failure on the blank path starts the request again
ThrowFromBlankRetry(message) ==
    /\ pc' = "start"
    /\ error' = [message |-> message, handled |-> TRUE]

\* An error thrown on the blank path passes through handleGoogleApiError.
ThrowFromBlank(message) ==
    /\ pc' = "failed"
    /\ error' = [message |-> message, handled |-> TRUE]

Return ==
    /\ pc' = "done"
    /\ result' = [presentationId |-> presentationId, editUrl |-> EditUrl(presentationId),
                  title |-> args.title]

\* getRes.data.slides ?? []: the slides of the presentation, or none when the
\* response carries no slides field
ReadViews(pages) == {pages, <<>>}

NotEnoughSlidesMessage == "Template restructuring did not produce enough slides"

\* mutant: the second read must return exactly N + 2 slides
EnoughSlidesExactly(fslides, n) == Len(fslides) = 1 + n + 1

\* mutant: the slide count of the second read is not checked
EnoughSlidesUnchecked(fslides, n) == TRUE

\* the negation of finalSlides.length < expectedSlides
EnoughSlides(fslides, n) == ~(Len(fslides) < 1 + n + 1)

TooFewSlidesMessage == "Default template must have at least 3 slides"

\* mutant: a template of two slides is accepted
TooFewSlidesBelowTwo(tslides) == Len(tslides) < 2

\* templateSlides.length < 3
TooFewSlides(tslides) == Len(tslides) < 3

\* mutant: the batch is sent whatever it holds
BatchNeededAlways(reqs) == TRUE

\* if (requests.length > 0), if (fillRequests.length > 0)
BatchNeeded(reqs) == Len(reqs) > 0

\* mutant: the template path is taken only when a template id is given
UseTemplateWhenIdGiven == drive /\ args.templatePresentationId # Undefined

\* if (options?.drive)
UseTemplate == drive

TemplateId ==
    IF args.templatePresentationId = Undefined THEN DEFAULT_TEMPLATE_ID
    ELSE args.templatePresentationId

\* drive.files.copy
CopyTemplate ==
    /\ pc = "start"
    /\ UseTemplate
    /\ \/ \E tpl \in Templates :
             /\ calls' = Append(calls, Call("drive.files.copy", TemplateId, <<>>, TRUE))
             /\ presentationId' = "deck"
             /\ doc' = tpl
             /\ pc' = "read"
             /\ UNCHANGED error
       \/ /\ calls' = Append(calls, Call("drive.files.copy", TemplateId, <<>>, TRUE))
          /\ ThrowFromTemplate("Drive copy did not return file id")
          /\ UNCHANGED <<presentationId, doc>>
       \/ /\ calls' = Append(calls, Call("drive.files.copy", TemplateId, <<>>, FALSE))
          /\ ThrowFromTemplate("remote")
          /\ UNCHANGED <<presentationId, doc>>
    /\ UNCHANGED <<args, drive, nextId, templateSlides, requests, finalSlides,
                   fillRequests, result, pureVars>>

\* the first presentations.get, the checks and the structural plan
ReadTemplate ==
    /\ pc = "read"
    /\ \/ \E view \in ReadViews(doc) :
             /\ calls' = Append(calls, Call("presentations.get", presentationId, <<>>, TRUE))
             /\ templateSlides' = view
             /\ IF TooFewSlides(view)
                THEN /\ ThrowFromTemplate(TooFewSlidesMessage)
                     /\ UNCHANGED requests
                ELSE IF view[TEMPLATE_CONTENT_LAYOUT_INDEX + 1].objectId = NoId
                THEN /\ ThrowFromTemplate("Template content layout slide missing objectId")
                     /\ UNCHANGED requests
                ELSE /\ requests' = StructuralRequests(view, Len(args.slides))
                     /\ pc' = IF BatchNeeded(requests') THEN "structural" ELSE "reread"
                     /\ UNCHANGED error
       \/ /\ calls' = Append(calls, Call("presentations.get", presentationId, <<>>, FALSE))
          /\ ThrowFromTemplate("remote")
          /\ UNCHANGED <<templateSlides, requests>>
    /\ UNCHANGED <<args, drive, doc, nextId, presentationId, finalSlides,
                   fillRequests, result, pureVars>>

\* presentations.batchUpdate with the structural requests
ApplyStructural ==
    /\ pc = "structural"
    /\ LET st == ApplyBatch([ok |-> TRUE, pages |-> doc, next |-> nextId], requests)
       IN \/ /\ st.ok
             /\ calls' = Append(calls, Call("presentations.batchUpdate", presentationId,
                                            requests, TRUE))
             /\ doc' = st.pages
             /\ nextId' = st.next
             /\ pc' = "reread"
             /\ UNCHANGED error
          \/ /\ calls' = Append(calls, Call("presentations.batchUpdate", presentationId,
                                            requests, FALSE))
             /\ ThrowFromTemplate("remote")
             /\ UNCHANGED <<doc, nextId>>
    /\ UNCHANGED <<args, drive, presentationId, templateSlides, requests, finalSlides,
                   fillRequests, result, pureVars>>

\* the second presentations.get, the check of the slide count and the fill plan
RereadTemplate ==
    /\ pc = "reread"
    /\ \/ \E view \in ReadViews(doc) :
             /\ calls' = Append(calls, Call("presentations.get", presentationId, <<>>, TRUE))
             /\ finalSlides' = view
             /\ IF ~EnoughSlides(view, Len(args.slides))
                THEN /\ ThrowFromTemplate(NotEnoughSlidesMessage)
                     /\ UNCHANGED <<fillRequests, result>>
                ELSE /\ fillRequests' = FillRequests(view, args)
                     /\ UNCHANGED error
                     /\ IF BatchNeeded(fillRequests')
                        THEN pc' = "fill" /\ UNCHANGED result
                        ELSE Return
       \/ /\ calls' = Append(calls, Call("presentations.get", presentationId, <<>>, FALSE))
          /\ ThrowFromTemplate("remote")
          /\ UNCHANGED <<finalSlides, fillRequests, result>>
    /\ UNCHANGED <<args, drive, doc, nextId, presentationId, templateSlides, requests,
                   pureVars>>

\* presentations.batchUpdate with the fill requests
ApplyFill ==
    /\ pc = "fill"
    /\ LET st == ApplyBatch([ok |-> TRUE, pages |-> doc, next |-> nextId], fillRequests)
       IN \/ /\ st.ok
             /\ calls' = Append(calls, Call("presentations.batchUpdate", presentationId,
                                            fillRequests, TRUE))
             /\ Return
             /\ UNCHANGED error
          \/ /\ calls' = Append(calls, Call("presentations.batchUpdate", presentationId,
                                            fillRequests, FALSE))
             /\ ThrowFromTemplate("remote")
             /\ UNCHANGED result
    /\ UNCHANGED <<args, drive, doc, nextId, presentationId, templateSlides, requests,
                   finalSlides, fillRequests, pureVars>>

\* presentations.create
CreateBlank ==
    /\ pc = "start"
    /\ ~UseTemplate
    /\ \/ \E d \in BlankDocs :
             /\ calls' = Append(calls, Call("presentations.create", args.title, <<>>, TRUE))
             /\ presentationId' = "deck"
             /\ doc' = d
             /\ pc' = "readBlank"
             /\ UNCHANGED error
       \/ /\ calls' = Append(calls, Call("presentations.create", args.title, <<>>, TRUE))
          /\ ThrowFromBlank("Google API did not return presentationId")
          /\ UNCHANGED <<presentationId, doc>>
       \/ /\ calls' = Append(calls, Call("presentations.create", args.title, <<>>, FALSE))
          /\ ThrowFromBlank("remote")
          /\ UNCHANGED <<presentationId, doc>>
    /\ UNCHANGED <<args, drive, nextId, templateSlides, requests, finalSlides,
                   fillRequests, result, pureVars>>

\* presentations.get of the blank path and the one batch it plans
ReadBlank ==
    /\ pc = "readBlank"
    /\ \/ /\ calls' = Append(calls, Call("presentations.get", presentationId, <<>>, TRUE))
          /\ requests' = BlankRequests(doc, args)
          /\ UNCHANGED error
          /\ IF BatchNeeded(requests')
             THEN pc' = "blankBatch" /\ UNCHANGED result
             ELSE Return
       \/ /\ calls' = Append(calls, Call("presentations.get", presentationId, <<>>, FALSE))
          /\ ThrowFromBlank("remote")
          /\ UNCHANGED <<requests, result>>
    /\ UNCHANGED <<args, drive, doc, nextId, presentationId, templateSlides,
                   finalSlides, fillRequests, pureVars>>

\* presentations.batchUpdate of the blank path
ApplyBlank ==
    /\ pc = "blankBatch"
    /\ LET st == ApplyBatch([ok |-> TRUE, pages |-> doc, next |-> nextId], requests)
       IN \/ /\ st.ok
             /\ calls' = Append(calls, Call("presentations.batchUpdate", presentationId,
                                            requests, TRUE))
             /\ doc' = st.pages
             /\ Return
             /\ UNCHANGED error
          \/ /\ calls' = Append(calls, Call("presentations.batchUpdate", presentationId,
                                            requests, FALSE))
             /\ ThrowFromBlank("remote")
             /\ UNCHANGED <<doc, result>>
    /\ UNCHANGED <<args, drive, nextId, presentationId, templateSlides, requests,
                   finalSlides, fillRequests, pureVars>>

Next ==
    \/ CopyTemplate
    \/ ReadTemplate
    \/ ApplyStructural
    \/ RereadTemplate
    \/ ApplyFill
    \/ CreateBlank
    \/ ReadBlank
    \/ ApplyBlank

Spec == Init /\ [][Next]_vars

---------------------------------------------------------------------------
(* buildSlideBodyText on its own: every slide over a small alphabet *)

Chars == {"a", " "}

Strs(n) == UNION {[1..k -> Chars] : k \in 0..n}

BulletStrs == {<<>>, <<" ">>, <<"a">>, <<" ", "a", " ">>, <<"b">>}

BulletLists == {UndefinedList} \cup UNION {[1..k -> BulletStrs] : k \in 0..MaxBullets}

TextSlides ==
    [title : {Undefined}, subtitle : {Undefined} \cup Strs(MaxLen),
     body : {Undefined} \cup Strs(MaxLen), bullets : BulletLists] \cup {FullSlide}

Idle ==
    /\ args = [title |-> DeckTitle, slides |-> <<EmptySlide>>,
               templatePresentationId |-> Undefined]
    /\ drive = FALSE
    /\ pc = "idle"
    /\ doc = <<>>
    /\ nextId = 1
    /\ presentationId = NoId
    /\ templateSlides = <<>>
    /\ requests = <<>>
    /\ finalSlides = <<>>
    /\ fillRequests = <<>>
    /\ result = NoResult
    /\ error = NoError
    /\ calls = <<>>

\* no second call in flight
Alone ==
    /\ running = <<>>
    /\ store = <<>>

\* the function is called directly, not through an entry point
Direct ==
    /\ entry = "none"
    /\ body = <<>>
    /\ response = "none"
    /\ rpc = <<>>
    /\ responses = <<>>

InitText ==
    /\ Idle
    /\ Alone
    /\ Direct
    /\ slide \in TextSlides
    /\ slideBody = Undefined
    /\ pageElements = <<>>
    /\ placeholders = NoPlaceholders

BuildText ==
    /\ slideBody = Undefined
    /\ slideBody' = buildSlideBodyText(slide)
    /\ UNCHANGED <<engineVars, slide, resolverVars, concurrentVars, entryVars>>

NextText == BuildText

SpecText == InitText /\ [][NextText]_vars

---------------------------------------------------------------------------
(* The two placeholder classifications on their own: every element list of *)
(* up to MaxEls elements                                                    *)

ElementLists(n) ==
    { [j \in 1..n |->
         [objectId |-> IF f[j].hasId THEN "e" \o ToString(j) ELSE NoId,
          type |-> f[j].type]] :
      f \in [1..n -> [type : PlaceholderTypes, hasId : BOOLEAN]] }

InitResolver ==
    /\ Idle
    /\ Alone
    /\ Direct
    /\ slide = EmptySlide
    /\ slideBody = Undefined
    /\ \E n \in 0..MaxEls : pageElements \in ElementLists(n)
    /\ placeholders = NoPlaceholders

\* getTitleAndBodyPlaceholders(pageElements)
ResolveTemplate ==
    /\ placeholders.path = "none"
    /\ LET ph == getTitleAndBodyPlaceholders(pageElements)
       IN placeholders' = [path |-> "template", title |-> ph.title, body |-> ph.body]
    /\ UNCHANGED <<engineVars, textVars, pageElements, concurrentVars, entryVars>>

\* the classification of lines 168-177 on the same elements
ResolveBlank ==
    /\ placeholders.path = "none"
    /\ LET ph == firstSlidePlaceholders(pageElements)
       IN placeholders' = [path |-> "blank", title |-> ph.title, body |-> ph.body]
    /\ UNCHANGED <<engineVars, textVars, pageElements, concurrentVars, entryVars>>

NextResolver ==
    \/ ResolveTemplate
    \/ ResolveBlank

SpecResolver == InitResolver /\ [][NextResolver]_vars

---------------------------------------------------------------------------
(* Two calls of createPresentationFromContent in flight at once: each is the *)
(* request of Spec with its locals in running[r]; the presentations live in  *)
(* one store, and the awaits of the two calls interleave in any order.       *)

Callers == {1, 2}

\* the id the store gives to the k-th file it makes
DeckId(k) == "deck" \o ToString(k)

DeckIndex(id) == CHOOSE k \in 1..2 : DeckId(k) = id

TaggedShape == <<El("TITLE", TRUE), El("SUBTITLE", TRUE)>>

\* the templates the store holds, by file id
StoredTemplates ==
    [id \in {DEFAULT_TEMPLATE_ID, <<"t">>} |->
        IF id = DEFAULT_TEMPLATE_ID
        THEN Template(3, TaggedShape, TaggedShape, TRUE, <<>>)
        ELSE Template(4, TaggedShape, TaggedShape, TRUE, [i \in 3..3 |-> TRUE])]

ConcurrentArgs ==
    [title : {DeckTitle, <<"E">>},
     slides : {<<FullSlide>>, <<EmptyBulletSlide, FullSlide>>},
     templatePresentationId : TemplateIds]

\* the locals of a call that has not reached its first await
Started(a, d) ==
    [args |-> a, drive |-> d, pc |-> "start", presentationId |-> NoId,
     templateSlides |-> <<>>, requests |-> <<>>, finalSlides |-> <<>>,
     fillRequests |-> <<>>, result |-> NoResult, error |-> NoError, calls |-> <<>>]

InitConcurrent ==
    /\ Idle
    /\ slide = EmptySlide
    /\ slideBody = Undefined
    /\ pageElements = <<>>
    /\ placeholders = NoPlaceholders
    /\ running \in [Callers -> {Started(a, d) : a \in ConcurrentArgs, d \in BOOLEAN}]
    /\ store = [templates |-> StoredTemplates, created |-> <<>>]
    /\ Direct

\* mutant: the presentation id is kept in one place for every call
TargetShared(q) == DeckId(1)

\* the presentationId a call passes to presentations.get and batchUpdate
Target(q) == q.presentationId

Stored(id) == store.created[DeckIndex(id)]

TemplateIdOf(a) ==
    IF a.templatePresentationId = Undefined THEN DEFAULT_TEMPLATE_ID
    ELSE a.templatePresentationId

\* the call q after the remote call c has thrown
Thrown(q, c) ==
    [q EXCEPT !.pc = "failed",
              !.error = [message |-> "remote", handled |-> ~q.drive],
              !.calls = Append(@, c)]

\* the call q after the remote call c has returned and a check has thrown
Rejected(q, c, message) ==
    [q EXCEPT !.pc = "failed",
              !.error = [message |-> message, handled |-> ~q.drive],
              !.calls = Append(@, c)]

Returned(q) ==
    [q EXCEPT !.pc = "done",
              !.result = [presentationId |-> q.presentationId,
                          editUrl |-> EditUrl(q.presentationId),
                          title |-> q.args.title]]

\* drive.files.copy or presentations.create
CallerProvision(r) ==
    LET q == running[r]
        api == IF q.drive THEN "drive.files.copy" ELSE "presentations.create"
        named == IF q.drive THEN TemplateIdOf(q.args) ELSE q.args.title
        pages == IF q.drive THEN store.templates[TemplateIdOf(q.args)]
                 ELSE <<MkPage(0, TRUE, TaggedShape)>>
        id == DeckId(Len(store.created) + 1)
    IN /\ q.pc = "start"
       /\ \/ /\ running' = [running EXCEPT ![r] =
                    [q EXCEPT !.pc = "read", !.presentationId = id,
                              !.calls = Append(@, Call(api, named, <<>>, TRUE))]]
             /\ store' = [store EXCEPT !.created = Append(@, [pages |-> pages, next |-> 1])]
          \/ /\ running' = [running EXCEPT ![r] =
                   Rejected(q, Call(api, named, <<>>, TRUE),
                            IF q.drive THEN "Drive copy did not return file id"
                            ELSE "Google API did not return presentationId")]
             /\ UNCHANGED store
          \/ /\ running' = [running EXCEPT ![r] = Thrown(q, Call(api, named, <<>>, FALSE))]
             /\ UNCHANGED store
       /\ UNCHANGED <<engineVars, textVars, resolverVars, entryVars>>

\* the first presentations.get and the plan made from it
CallerRead(r) ==
    LET q == running[r]
        c == Call("presentations.get", Target(q), <<>>, TRUE)
        n == Len(q.args.slides)
    IN /\ q.pc = "read"
       /\ \/ \E view \in (IF q.drive THEN ReadViews(Stored(Target(q)).pages)
                          ELSE {Stored(Target(q)).pages}) :
                running' = [running EXCEPT ![r] =
                   IF q.drive
                   THEN IF TooFewSlides(view)
                        THEN Rejected([q EXCEPT !.templateSlides = view], c,
                                      TooFewSlidesMessage)
                        ELSE IF view[TEMPLATE_CONTENT_LAYOUT_INDEX + 1].objectId = NoId
                        THEN Rejected([q EXCEPT !.templateSlides = view], c,
                                      "Template content layout slide missing objectId")
                        ELSE [q EXCEPT !.templateSlides = view,
                                       !.requests = StructuralRequests(view, n),
                                       !.pc = IF BatchNeeded(StructuralRequests(view, n))
                                              THEN "structural" ELSE "reread",
                                       !.calls = Append(@, c)]
                   ELSE LET plan == BlankRequests(view, q.args)
                            planned == [q EXCEPT !.requests = plan, !.calls = Append(@, c)]
                        IN IF BatchNeeded(plan) THEN [planned EXCEPT !.pc = "blankBatch"]
                           ELSE Returned(planned)]
          \/ running' = [running EXCEPT ![r] =
                Thrown(q, Call("presentations.get", Target(q), <<>>, FALSE))]
       /\ UNCHANGED <<store, engineVars, textVars, resolverVars, entryVars>>

\* presentations.batchUpdate: the structural batch, the fill batch or the one
\* batch of the blank path
CallerBatch(r) ==
    LET q == running[r]
        reqs == IF q.pc = "fill" THEN q.fillRequests ELSE q.requests
        d == Stored(Target(q))
        st == ApplyBatch([ok |-> TRUE, pages |-> d.pages, next |-> d.next], reqs)
        sent == [q EXCEPT !.calls =
                    Append(@, Call("presentations.batchUpdate", Target(q), reqs, TRUE))]
    IN /\ q.pc \in {"structural", "fill", "blankBatch"}
       /\ \/ /\ st.ok
             /\ store' = [store EXCEPT !.created[DeckIndex(Target(q))] =
                             [pages |-> st.pages, next |-> st.next]]
             /\ running' = [running EXCEPT ![r] =
                   IF q.pc = "structural" THEN [sent EXCEPT !.pc = "reread"]
                   ELSE Returned(sent)]
          \/ /\ running' = [running EXCEPT ![r] =
                   Thrown(q, Call("presentations.batchUpdate", Target(q), reqs, FALSE))]
             /\ UNCHANGED store
       /\ UNCHANGED <<engineVars, textVars, resolverVars, entryVars>>

\* the second presentations.get of the template path and the fill plan
CallerReread(r) ==
    LET q == running[r]
        c == Call("presentations.get", Target(q), <<>>, TRUE)
    IN /\ q.pc = "reread"
       /\ \/ \E view \in ReadViews(Stored(Target(q)).pages) :
                running' = [running EXCEPT ![r] =
                   IF ~EnoughSlides(view, Len(q.args.slides))
                   THEN Rejected([q EXCEPT !.finalSlides = view], c, NotEnoughSlidesMessage)
                   ELSE LET plan == FillRequests(view, q.args)
                            planned == [q EXCEPT !.finalSlides = view,
                                                 !.fillRequests = plan,
                                                 !.calls = Append(@, c)]
                        IN IF BatchNeeded(plan) THEN [planned EXCEPT !.pc = "fill"]
                           ELSE Returned(planned)]
          \/ running' = [running EXCEPT ![r] =
                Thrown(q, Call("presentations.get", Target(q), <<>>, FALSE))]
       /\ UNCHANGED <<store, engineVars, textVars, resolverVars, entryVars>>

NextConcurrent ==
    \E r \in Callers :
        \/ CallerProvision(r)
        \/ CallerRead(r)
        \/ CallerBatch(r)
        \/ CallerReread(r)

SpecConcurrent == InitConcurrent /\ [][NextConcurrent]_vars

---------------------------------------------------------------------------
(* The entry points: POST /slides and callTool('create_presentation_from_    *)
(* content') validate the body with CreatePresentationFromContentSchema and  *)
(* then call createPresentationFromContent.                                  *)

\* slideNumber: absent, or a number
NoNumber == [present |-> FALSE, value |-> 0]
Number(n) == [present |-> TRUE, value |-> n]

SlideNumbers == {NoNumber, Number(-1), Number(0), Number(1)}

\* a slide as it comes in: its slideNumber and the text fields
RawSlides == [slideNumber : SlideNumbers, content : {FullSlide}]

\* slides: absent, or a list
NoSlides == [present |-> FALSE, list |-> <<>>]

RawSlideLists ==
    {NoSlides} \cup {[present |-> TRUE, list |-> l] :
                        l \in UNION {[1..n -> RawSlides] : n \in 0..2}}

Bodies ==
    [title : {Undefined, <<>>, <<" ">>, DeckTitle},
     slides : RawSlideLists,
     templatePresentationId : {Undefined, <<>>, <<"t">>}]

\* slideNumber: z.number().int().min(1).optional()
SlideContentSchema(s) == s.slideNumber.present => s.slideNumber.value >= 1

\* mutant: slides without .min(1)
CreatePresentationFromContentSchemaAnySlides(b) ==
    /\ b.title # Undefined /\ Len(b.title) >= 1
    /\ b.slides.present
    /\ \A i \in 1..Len(b.slides.list) : SlideContentSchema(b.slides.list[i])
    /\ b.templatePresentationId # Undefined => Len(b.templatePresentationId) >= 1

\* safeParse(b).success
CreatePresentationFromContentSchema(b) ==
    /\ b.title # Undefined /\ Len(b.title) >= 1
    /\ b.slides.present /\ Len(b.slides.list) >= 1
    /\ \A i \in 1..Len(b.slides.list) : SlideContentSchema(b.slides.list[i])
    /\ b.templatePresentationId # Undefined => Len(b.templatePresentationId) >= 1

\* parsed.data, as far as createPresentationFromContent reads it
Parsed(b) ==
    [title |-> b.title,
     slides |-> [i \in 1..Len(b.slides.list) |-> b.slides.list[i].content],
     templatePresentationId |-> b.templatePresentationId]

InitEntry ==
    /\ Idle
    /\ Alone
    /\ slide = EmptySlide
    /\ slideBody = Undefined
    /\ pageElements = <<>>
    /\ placeholders = NoPlaceholders
    /\ entry \in {"POST /slides", "callTool"}
    /\ body \in Bodies
    /\ response = "none"
    /\ rpc = <<>>
    /\ responses = <<>>

entryFrame == <<doc, nextId, presentationId, templateSlides, requests, finalSlides,
                fillRequests, result, error, calls, textVars, resolverVars,
                concurrentVars, entry, body, rpc, responses>>

\* app.post('/slides'), up to the call of createPresentationFromContent
PostSlides ==
    /\ entry = "POST /slides" /\ pc = "idle"
    /\ IF ~CreatePresentationFromContentSchema(body)
       THEN /\ response' = "400 Invalid request body"
            /\ pc' = "rejected"
            /\ UNCHANGED <<args, drive>>
       ELSE /\ args' = Parsed(body)
            /\ drive' = TRUE
            /\ pc' = "start"
            /\ UNCHANGED response
    /\ UNCHANGED entryFrame

\* callTool, case 'create_presentation_from_content', up to the call of
\* createPresentationFromContent
CallTool ==
    /\ entry = "callTool" /\ pc = "idle"
    /\ IF ~CreatePresentationFromContentSchema(body)
       THEN /\ response' = "isError"
            /\ pc' = "rejected"
            /\ UNCHANGED <<args, drive>>
       ELSE /\ args' = Parsed(body)
            /\ drive' \in BOOLEAN
            /\ pc' = "start"
            /\ UNCHANGED response
    /\ UNCHANGED entryFrame

\* the entry point after createPresentationFromContent has settled
Respond ==
    /\ entry \in {"POST /slides", "callTool"} /\ response = "none"
    /\ pc \in {"done", "failed"}
    /\ response' = IF entry = "POST /slides"
                   THEN (IF pc = "done" THEN "200" ELSE "500 Failed to create presentation")
                   ELSE (IF pc = "done" THEN "content" ELSE "thrown")
    /\ UNCHANGED <<engineVars, textVars, resolverVars, concurrentVars, entry, body,
                   rpc, responses>>

NextEntry ==
    \/ PostSlides
    \/ CallTool
    \/ Next
    \/ Respond

SpecEntry == InitEntry /\ [][NextEntry]_vars

---------------------------------------------------------------------------
(* handleMcpRequest: a JSON-RPC body comes in on POST /mcp, the handler      *)
(* answers it or hands a tools/call to callTool and answers when the tool    *)
(* has settled.  Of the tools only create_presentation_from_content is       *)
(* followed into its code; the body variable holds params.arguments.         *)

Methods == {"initialize", "notifications/initialized", "tools/list", "tools/call",
            "other"}

\* params: absent, null, or an object
ParamsKinds == {"undefined", "null", "object"}

\* params.name: absent, the empty string, a number, the name of the tool, or
\* a string that names no tool
NameKinds == {"undefined", "empty", "number", "create_presentation_from_content",
              "unknown"}

\* hasMethod: typeof body === 'object' && body !== null && 'method' in body
RpcBodies == [hasMethod : BOOLEAN, method : Methods, params : ParamsKinds,
              name : NameKinds]

\* the one body of tool arguments used where the tool is not reached
PlainBody == [title |-> DeckTitle, slides |-> NoSlides,
              templatePresentationId |-> Undefined]

\* the request reaches the safeParse of callTool
ReachesTool(r) ==
    /\ r.hasMethod /\ r.method = "tools/call"
    /\ r.params = "object" /\ r.name = "create_presentation_from_content"

InitMcp ==
    /\ Idle
    /\ Alone
    /\ slide = EmptySlide
    /\ slideBody = Undefined
    /\ pageElements = <<>>
    /\ placeholders = NoPlaceholders
    /\ entry = "POST /mcp"
    /\ rpc \in RpcBodies
    /\ body \in Bodies
    /\ ReachesTool(rpc) \/ body = PlainBody
    /\ response = "none"
    /\ responses = <<>>

\* sendJsonRpcError
JsonRpcError(code) == [status |-> 400, error |-> code, isError |-> FALSE]

\* sendJsonRpcResponse with a result that is not a tool result
JsonRpcResult == [status |-> 200, error |-> 0, isError |-> FALSE]

\* sendJsonRpcResponse with the result of a tool
JsonRpcToolResult(isError) == [status |-> 200, error |-> 0, isError |-> isError]

\* res.status(202).end()
Accepted == [status |-> 202, error |-> 0, isError |-> FALSE]

\* the handler sends r and returns
SendAndReturn(r) ==
    /\ responses' = Append(responses, r)
    /\ response' = "returned"
    /\ pc' = "rejected"
    /\ UNCHANGED <<args, drive>>

\* handleMcpRequest, up to the call of createPresentationFromContent
HandleMcpRequest ==
    /\ entry = "POST /mcp" /\ pc = "idle"
    /\ IF ~rpc.hasMethod THEN SendAndReturn(JsonRpcError(-32600))
       ELSE IF rpc.method = "initialize" THEN SendAndReturn(JsonRpcResult)
       ELSE IF rpc.method = "notifications/initialized" THEN SendAndReturn(Accepted)
       ELSE IF rpc.method = "tools/list" THEN SendAndReturn(JsonRpcResult)
       ELSE IF rpc.method = "tools/call"
       THEN IF rpc.params = "null"
            THEN \* params.name of null throws outside the try block
                 /\ response' = "thrown"
                 /\ pc' = "rejected"
                 /\ UNCHANGED <<responses, args, drive>>
            ELSE IF rpc.params = "undefined" \/ rpc.name \in {"undefined", "empty", "number"}
            THEN SendAndReturn(JsonRpcError(-32602))
            ELSE IF rpc.name = "unknown"
            THEN SendAndReturn(JsonRpcToolResult(TRUE))
            ELSE IF ~CreatePresentationFromContentSchema(body)
            THEN SendAndReturn(JsonRpcToolResult(TRUE))
            ELSE /\ args' = Parsed(body)
                 /\ drive' \in BOOLEAN
                 /\ pc' = "start"
                 /\ UNCHANGED <<responses, response>>
       ELSE SendAndReturn(JsonRpcError(-32601))
    /\ UNCHANGED <<doc, nextId, presentationId, templateSlides, requests, finalSlides,
                   fillRequests, result, error, calls, textVars, resolverVars,
                   concurrentVars, entry, body, rpc>>

\* handleMcpRequest after callTool has settled: the result, or the catch
McpRespond ==
    /\ entry = "POST /mcp" /\ response = "none"
    /\ pc \in {"done", "failed"}
    /\ responses' = Append(responses, JsonRpcToolResult(pc = "failed"))
    /\ response' = "returned"
    /\ UNCHANGED <<engineVars, textVars, resolverVars, concurrentVars, entry, body, rpc>>

NextMcp ==
    \/ HandleMcpRequest
    \/ Next
    \/ McpRespond

SpecMcp == InitMcp /\ [][NextMcp]_vars

---------------------------------------------------------------------------
(* Vocabulary of the properties *)

IsTextRequest(r) == r.kind \in {"deleteText", "insertText"}

IsStructuralRequest(r) == r.kind \in {"duplicateObject", "deleteObject"}

RequestIds(reqs) == {reqs[k].objectId : k \in 1..Len(reqs)}

\* the text requests of a batch that name one of the elements ids, in order
TextOpsOn(reqs, ids) ==
    LET Names(r) == IsTextRequest(r) /\ r.objectId \in ids
    IN SelectSeq(reqs, Names)

KindCount(reqs, kind) == Cardinality({k \in 1..Len(reqs) : reqs[k].kind = kind})

\* ops is at most one fill of the element t: nothing else is named, and there
\* is at most one delete and one insert
AtMostOneFillOf(ops, t) ==
    /\ \A k \in 1..Len(ops) : ops[k].objectId = t
    /\ KindCount(ops, "insertText") <= 1
    /\ KindCount(ops, "deleteText") <= 1

N == Len(args.slides)

\* the batch that carries the text of the request, and the pages its targets
\* were read from
TemplateFilled == drive /\ fillRequests # <<>>
BlankPlanned == ~drive /\ requests # <<>>

\* the title and body target of page i (from 0) of the second read
TitleTargetAt(i) == getTitleAndBodyPlaceholders(ElementsAt(finalSlides, i)).title
BodyTargetAt(i) == getTitleAndBodyPlaceholders(ElementsAt(finalSlides, i)).body

\* the title and body target of the first slide on the blank path
BlankTitleTarget == firstSlidePlaceholders(ElementsAt(doc, 0)).title
BlankBodyTarget == firstSlidePlaceholders(ElementsAt(doc, 0)).body

ApiSeq == [k \in 1..Len(calls) |-> calls[k].api]

IsPrefix(s, t) == Len(s) <= Len(t) /\ SubSeq(t, 1, Len(s)) = s

---------------------------------------------------------------------------
(* C1 *)

\* C1: in template mode a successful assemble of N slides leaves the document
\* with exactly N + 2 pages (the store inserts every duplicate and removes
\* every deleted page).
C1_ExactlyNPlus2Pages ==
    (drive /\ pc = "done") => Len(doc) = N + 2

---------------------------------------------------------------------------
(* C2 *)

\* the remote calls of the template path, in order; the structural batchUpdate
\* is there when the structural plan is not empty
TemplateCallOrder ==
    <<"drive.files.copy", "presentations.get">>
        \o (IF requests # <<>> THEN <<"presentations.batchUpdate">> ELSE <<>>)
        \o <<"presentations.get", "presentations.batchUpdate">>

IsFillCall(c) ==
    /\ c.api = "presentations.batchUpdate"
    /\ \E k \in 1..Len(c.requests) : IsTextRequest(c.requests[k])

IsStructuralCall(c) ==
    /\ c.api = "presentations.batchUpdate"
    /\ \E k \in 1..Len(c.requests) : IsStructuralRequest(c.requests[k])

\* C2: in template mode no stage is skipped: the calls are issued in the order
\* copy, read, structural batch, read, fill batch; the fill batch comes right
\* after the second read, which returned, and after the structural batch
\* (when there is one), which returned; every element id the fill batch names
\* is an element id of the second read and of the document as it is then.
C2_FillOnlyAfterStructureAndReread ==
    drive =>
        /\ Len(calls) > 2 => IsPrefix(ApiSeq, TemplateCallOrder)
        /\ \A k \in 1..Len(calls) :
              IsFillCall(calls[k]) =>
                 /\ k > 2
                 /\ calls[k - 1].api = "presentations.get" /\ calls[k - 1].ok
                 /\ Cardinality({j \in 1..(k - 1) : calls[j].api = "presentations.get"}) = 2
                 /\ \A j \in 1..(k - 1) : calls[j].ok
                 /\ requests # <<>> =>
                       \E j \in 1..(k - 2) :
                          IsStructuralCall(calls[j]) /\ calls[j].requests = requests
                 /\ ~\E j \in 1..Len(calls[k].requests) :
                          IsStructuralRequest(calls[k].requests[j])
                 /\ RequestIds(calls[k].requests) \subseteq AllElementIds(finalSlides)
                 /\ RequestIds(calls[k].requests) \subseteq AllElementIds(doc)
                 /\ finalSlides = doc

\* a finished template request that duplicated and deleted pages and whose
\* fill batch names an element the first read did not hold
C2_Witness ==
    /\ drive /\ pc = "done" /\ Len(calls) = 5
    /\ KindCount(requests, "duplicateObject") >= 1
    /\ KindCount(requests, "deleteObject") >= 1
    /\ IsFillCall(calls[5])
    /\ \E k \in 1..Len(fillRequests) :
          fillRequests[k].objectId \notin AllElementIds(templateSlides)

---------------------------------------------------------------------------
(* C3 *)

NoBodyOnTitlePageTemplate ==
    (TemplateFilled /\ finalSlides # <<>>) =>
        AtMostOneFillOf(TextOpsOn(fillRequests, ElementIds(finalSlides[1])),
                        TitleTargetAt(0))

NoBodyOnTitlePageBlank ==
    (BlankPlanned /\ doc # <<>>) =>
        AtMostOneFillOf(TextOpsOn(requests, ElementIds(doc[1])), BlankTitleTarget)

\* C3 as stated: in both modes the text requests that name an element of
\* page 0 are at most one fill of its title target; no body text goes there.
C3_NoBodyOnTitlePageBothModes ==
    NoBodyOnTitlePageTemplate /\ NoBodyOnTitlePageBlank

\* C3 amended: in template mode the text requests that name an element of
\* page 0 are at most one fill of its title target; no body text goes there.
C3_NoBodyOnTitlePageTemplate == NoBodyOnTitlePageTemplate

\* a finished template request whose title page has a body target of its own,
\* got its title filled, and whose content pages got a body
C3_Witness ==
    /\ drive /\ pc = "done"
    /\ BodyTargetAt(0) # NoId /\ TitleTargetAt(0) # NoId
    /\ BodyTargetAt(0) # TitleTargetAt(0)
    /\ TextOpsOn(fillRequests, ElementIds(finalSlides[1])) # <<>>
    /\ \E k \in 1..Len(fillRequests) :
          /\ fillRequests[k].kind = "insertText"
          /\ fillRequests[k].text = buildSlideBodyText(args.slides[1])
          /\ fillRequests[k].text # <<>>

---------------------------------------------------------------------------
(* C4 *)

InsertsInto(reqs, t) ==
    LET Into(r) == r.kind = "insertText" /\ r.objectId = t
    IN SelectSeq(reqs, Into)

TitlePageGetsDeckTitleTemplate ==
    (TemplateFilled /\ TitleTargetAt(0) # NoId) =>
        LET ins == InsertsInto(fillRequests, TitleTargetAt(0))
        IN Len(ins) = 1 /\ ins[1].text = args.title

\* C4 as stated: in both modes every text inserted into the title target of
\* page 0 is the deck title, whatever the title of slides[0] is (the body text
\* that a title target which is also the body target receives is not counted).
C4_TitlePageGetsDeckTitleBothModes ==
    /\ TitlePageGetsDeckTitleTemplate
    /\ (BlankPlanned /\ BlankTitleTarget # NoId) =>
          \A k \in 1..Len(requests) :
             (requests[k].kind = "insertText" /\ requests[k].objectId = BlankTitleTarget
              /\ requests[k].text # buildSlideBodyText(args.slides[1]))
                => requests[k].text = args.title

\* C4 amended: in template mode the text inserted into the title target of
\* page 0 is the deck title; in blank mode the first request is the insert
\* into the title target of page 0, and its text is the trimmed title of
\* slides[0] when slides[0] has a title (an empty one too) and the deck title
\* only when it has none.
C4_TitlePageTitleText ==
    /\ TitlePageGetsDeckTitleTemplate
    /\ (BlankPlanned /\ BlankTitleTarget # NoId) =>
          /\ requests[1].kind = "insertText"
          /\ requests[1].objectId = BlankTitleTarget
          /\ requests[1].text = IF args.slides[1].title = Undefined THEN args.title
                                ELSE Trim(args.slides[1].title)

\* a finished blank request whose first slide has a title target and whose
\* slides[0] has a title that is not the deck title
C4_Witness ==
    /\ ~drive /\ pc = "done"
    /\ BlankTitleTarget # NoId
    /\ args.slides[1].title # Undefined
    /\ requests[1].text = <<"T">>
    /\ requests[1].text # args.title

---------------------------------------------------------------------------
(* C5 *)

\* the composed body text as the claim words it, with the bullet glyph
ClaimedParts(s) ==
    (IF s.subtitle # Undefined /\ Trim(s.subtitle) # <<>> THEN <<Trim(s.subtitle)>> ELSE <<>>)
    \o (IF s.body # Undefined /\ Trim(s.body) # <<>> THEN <<Trim(s.body)>> ELSE <<>>)
    \o (IF s.bullets # UndefinedList /\ s.bullets # <<>>
        THEN <<Join([j \in 1..Len(s.bullets) |->
                        BulletGlyph \o <<" ">> \o Trim(s.bullets[j])], <<"\n">>)>>
        ELSE <<>>)

ClaimedBody(s) == Join(ClaimedParts(s), <<"\n", "\n">>)

ExampleBody ==
    <<"s", "\n", "\n", "x", "\n", "\n", "U+2022", " ", "a", "\n", "U+2022", " ", "b">>

\* C5: the composed body text is the non-empty parts subtitle, body, bullets
\* in that order, separated by a blank line, every bullet prefixed by the
\* bullet glyph and a space; the example of the claim gives ExampleBody.
C5_ComposedBodyText ==
    slideBody # Undefined =>
        /\ slideBody = ClaimedBody(slide)
        /\ slide = FullSlide => slideBody = ExampleBody

---------------------------------------------------------------------------
(* C6 *)

IsBlankString(s) == s = Undefined \/ \A k \in 1..Len(s) : IsWhiteSpace(s[k])

\* all content fields empty or absent, as the claim counts them: a bullet list
\* that holds only empty strings is empty
EmptyContentClaimed(s) ==
    /\ IsBlankString(s.subtitle)
    /\ IsBlankString(s.body)
    /\ s.bullets = UndefinedList \/ \A j \in 1..Len(s.bullets) : s.bullets[j] = <<>>

\* all content fields empty or absent: no bullet at all
EmptyContent(s) ==
    /\ IsBlankString(s.subtitle)
    /\ IsBlankString(s.body)
    /\ s.bullets = UndefinedList \/ s.bullets = <<>>

BoxIds(i) == {"title_" \o ToString(i), "body_" \o ToString(i)}

\* the text requests that name an element of the page of an empty slide are at
\* most one fill of the title target of that page: nothing is deleted from or
\* inserted into its body
NoBodyFillForEmptySlides(Empty(_)) ==
    /\ TemplateFilled =>
          \A i \in 1..N :
             Empty(args.slides[i]) =>
                AtMostOneFillOf(TextOpsOn(fillRequests, ElementIds(finalSlides[i + 1])),
                                TitleTargetAt(i))
    /\ BlankPlanned =>
          /\ (doc # <<>> /\ Empty(args.slides[1])) =>
                AtMostOneFillOf(TextOpsOn(requests, ElementIds(doc[1])), BlankTitleTarget)
          /\ \A i \in 2..N :
                Empty(args.slides[i]) =>
                   AtMostOneFillOf(TextOpsOn(requests, BoxIds(i)), "title_" \o ToString(i))

\* C6 as stated: no delete-text and no insert-text is emitted for the body of
\* the page of a slide whose subtitle and body are absent, empty or white
\* space and whose bullets are absent, empty or only empty strings.
C6_NoBodyFillWhenContentEmptyClaimed == NoBodyFillForEmptySlides(EmptyContentClaimed)

\* C6 amended: no delete-text and no insert-text is emitted for the body of
\* the page of a slide whose subtitle and body are absent, empty or white
\* space and whose bullets are absent or an empty list.
C6_NoBodyFillWhenContentEmpty == NoBodyFillForEmptySlides(EmptyContent)

\* a finished template request with a white-space-only slide on a page that has
\* a body target, next to a slide whose body was filled
C6_Witness ==
    /\ drive /\ pc = "done" /\ N = 2
    /\ args.slides[1] = WhiteSlide /\ args.slides[2] = FullSlide
    /\ BodyTargetAt(1) # NoId /\ BodyTargetAt(1) # TitleTargetAt(1)
    /\ BodyTargetAt(1) \notin RequestIds(fillRequests)
    /\ BodyTargetAt(2) \in RequestIds(fillRequests)

---------------------------------------------------------------------------
(* C7 - C10: the placeholder classification *)

Hinted(els, types) == {j \in 1..Len(els) : els[j].type \in types}

WithId(els, js) == {j \in js : els[j].objectId # NoId}

Min(S) == CHOOSE x \in S : \A y \in S : x <= y
Max(S) == CHOOSE x \in S : \A y \in S : x >= y

NoHints(els) == Hinted(els, {"TITLE", "BODY", "SUBTITLE"}) = {}

Resolved == placeholders.path = "template"

\* no positional fallback for the title: a title target is a TITLE-hinted element
TitleOnlyByHint ==
    (Resolved /\ placeholders.title # NoId) =>
        \E j \in Hinted(pageElements, {"TITLE"}) :
           pageElements[j].objectId = placeholders.title

\* C7 as stated: on a page with no role hints and at least two elements the
\* resolver assigns the element at index 1 as body and no title; a title is
\* never assigned by position.
C7_UntaggedPageBodyIsIndex1 ==
    /\ (Resolved /\ NoHints(pageElements) /\ Len(pageElements) >= 2) =>
          /\ placeholders.body # NoId
          /\ placeholders.body = pageElements[2].objectId
          /\ placeholders.title = NoId
    /\ TitleOnlyByHint

\* C7 amended: on a page with no role hints and at least two elements the
\* resolver assigns the element at index 1 as body when that element has an
\* identifier and no body when it has none, and no title; a title is never
\* assigned by position.
C7_UntaggedPageBodyIsIndex1WithId ==
    /\ (Resolved /\ NoHints(pageElements) /\ Len(pageElements) >= 2) =>
          /\ pageElements[2].objectId # NoId => placeholders.body = pageElements[2].objectId
          /\ pageElements[2].objectId = NoId => placeholders.body = NoId
          /\ placeholders.title = NoId
    /\ TitleOnlyByHint

\* the resolver has run on an untagged page of three elements and chose index 1
C7_Witness ==
    /\ Resolved /\ NoHints(pageElements) /\ Len(pageElements) = 3
    /\ placeholders.body = "e2" /\ placeholders.title = NoId

\* a page with one TITLE-hinted element, at a, one SUBTITLE-hinted element, at
\* b, and untagged elements around them
OneTitleOneSubtitle(els, a, b) ==
    /\ Hinted(els, {"TITLE"}) = {a}
    /\ Hinted(els, {"SUBTITLE"}) = {b}
    /\ Hinted(els, {"BODY"}) = {}

\* C8 as stated: on a page with one TITLE-hinted and one SUBTITLE-hinted
\* element the resolver assigns the first as title and the second as body,
\* wherever the two are in the list.
C8_TitleAndSubtitleAnyPosition ==
    \A a, b \in 1..Len(pageElements) :
       (Resolved /\ OneTitleOneSubtitle(pageElements, a, b)) =>
          /\ placeholders.title # NoId /\ placeholders.title = pageElements[a].objectId
          /\ placeholders.body # NoId /\ placeholders.body = pageElements[b].objectId

\* C8 amended: on a page with one TITLE-hinted and one SUBTITLE-hinted
\* element that both have an identifier, the resolver assigns the first as
\* title and the second as body, wherever the two are in the list.
C8_TitleAndSubtitleWithIdAnyPosition ==
    \A a, b \in 1..Len(pageElements) :
       (Resolved /\ OneTitleOneSubtitle(pageElements, a, b)
        /\ pageElements[a].objectId # NoId /\ pageElements[b].objectId # NoId) =>
          /\ placeholders.title = pageElements[a].objectId
          /\ placeholders.body = pageElements[b].objectId

\* the resolver has run on SUBTITLE, untagged, untagged, TITLE: the body is not
\* at index 1 and the title comes last
C8_Witness ==
    /\ Resolved /\ Len(pageElements) = 4
    /\ OneTitleOneSubtitle(pageElements, 4, 1)
    /\ placeholders.title = "e4" /\ placeholders.body = "e1"

AllHaveIds(els) == \A j \in 1..Len(els) : els[j].objectId # NoId

\* C9 as stated: with several TITLE-hinted elements the resolver returns the
\* first of them in list order (said here of the pages every element of which
\* has an identifier).
C9_FirstTitleHintWins ==
    (Resolved /\ AllHaveIds(pageElements)
     /\ Cardinality(Hinted(pageElements, {"TITLE"})) >= 2) =>
        placeholders.title = pageElements[Min(Hinted(pageElements, {"TITLE"}))].objectId

\* C9 amended: with several TITLE-hinted elements the resolver returns the
\* last of them in list order that has an identifier (no title when none
\* has); the classification of the blank path returns the last of them, and
\* no title when that one has no identifier.
C9_LastTitleHintWins ==
    LET T == Hinted(pageElements, {"TITLE"})
        TI == WithId(pageElements, T)
    IN Cardinality(T) >= 2 =>
          /\ Resolved =>
                placeholders.title = IF TI = {} THEN NoId ELSE pageElements[Max(TI)].objectId
          /\ placeholders.path = "blank" =>
                placeholders.title = pageElements[Max(T)].objectId

\* the resolver has run on a page with two TITLE-hinted elements that have
\* identifiers, and chose the second
C9_Witness ==
    /\ Resolved
    /\ Hinted(pageElements, {"TITLE"}) = {1, 3}
    /\ WithId(pageElements, {1, 3}) = {1, 3}
    /\ placeholders.title = "e3"

\* C10: in the resolver and in the classification of the blank path the body
\* target is the first element hinted BODY or SUBTITLE; the element at index 1
\* is the body only when no element is hinted BODY or SUBTITLE (said here of
\* the pages every element of which has an identifier).
C10_FirstBodyHintWins ==
    LET B == Hinted(pageElements, {"BODY", "SUBTITLE"})
    IN (placeholders.path \in {"template", "blank"} /\ AllHaveIds(pageElements)) =>
          /\ B # {} => placeholders.body = pageElements[Min(B)].objectId
          /\ (B = {} /\ Len(pageElements) >= 2) =>
                placeholders.body = pageElements[2].objectId
          /\ (B = {} /\ Len(pageElements) < 2) => placeholders.body = NoId

---------------------------------------------------------------------------
(* C11 *)

\* the first read passed both checks, so the structural plan was made
StructuralPlanned ==
    /\ drive
    /\ Len(templateSlides) >= 3
    /\ templateSlides[TEMPLATE_CONTENT_LAYOUT_INDEX + 1].objectId # NoId

\* the duplicate requests of a batch, in order
Duplicates(reqs) ==
    LET IsDup(r) == r.kind = "duplicateObject" IN SelectSeq(reqs, IsDup)

\* the delete requests of a batch, in order
Deletes(reqs) ==
    LET IsDel(r) == r.kind = "deleteObject" IN SelectSeq(reqs, IsDel)

\* C11: in template mode the structural plan, and every structural batch
\* sent, holds exactly N - 1 duplicate operations, each naming the page at
\* index 1 of the first read; so none for N = 1 and two for N = 3.
C11_DuplicatesOfContentLayout ==
    StructuralPlanned =>
        /\ Len(Duplicates(requests)) = N - 1
        /\ \A k \in 1..Len(requests) :
              requests[k].kind = "duplicateObject" =>
                 requests[k].objectId =
                    templateSlides[TEMPLATE_CONTENT_LAYOUT_INDEX + 1].objectId
        /\ N = 1 => Duplicates(requests) = <<>>
        /\ N = 3 => Len(Duplicates(requests)) = 2
        /\ \A k \in 1..Len(calls) :
              IsStructuralCall(calls[k]) => calls[k].requests = requests

\* a finished request of three slides on a 3-page template: the structural
\* batch that was sent holds two duplicates and no delete
C11_Witness ==
    /\ drive /\ pc = "done" /\ N = 3 /\ Len(templateSlides) = 3
    /\ Len(calls) >= 3 /\ IsStructuralCall(calls[3])
    /\ Len(Duplicates(calls[3].requests)) = 2
    /\ Deletes(calls[3].requests) = <<>>
    /\ Len(doc) = 5

---------------------------------------------------------------------------
(* C12 *)

\* C12: in template mode with a first read of P >= 3 pages, the deletes of
\* the structural plan are exactly one delete for each page at index
\* 2 .. P-2 of the first read, in ascending index order (P - 3 deletes), and
\* no delete names the title page, the content-layout page or the last page.
C12_DeletesEveryMiddlePage ==
    StructuralPlanned =>
        LET P == Len(templateSlides)
        IN /\ Deletes(requests) =
                 [k \in 1..(P - 3) |-> DeleteObject(templateSlides[k + 2].objectId)]
           /\ \A k \in 1..Len(requests) :
                 requests[k].kind = "deleteObject" =>
                    requests[k].objectId \notin
                       {templateSlides[1].objectId, templateSlides[2].objectId,
                        templateSlides[P].objectId}

---------------------------------------------------------------------------
(* C13 *)

\* in reqs no delete stands before a duplicate, and no duplicate names a
\* page that a delete names
DuplicatesBeforeDeletes(reqs) ==
    /\ \A i, j \in 1..Len(reqs) :
          (reqs[i].kind = "deleteObject" /\ reqs[j].kind = "duplicateObject") => j < i
    /\ RequestIds(Duplicates(reqs)) \cap RequestIds(Deletes(reqs)) = {}

\* C13: in template mode the structural plan and every structural batch sent
\* hold all duplicates before all deletes, and no duplicate names a page that
\* a delete of the same batch removes.
C13_DuplicatesBeforeDeletes ==
    drive =>
        /\ DuplicatesBeforeDeletes(requests)
        /\ \A k \in 1..Len(calls) :
              IsStructuralCall(calls[k]) => DuplicatesBeforeDeletes(calls[k].requests)

\* a structural batch with two duplicates and a delete was sent and applied
C13_Witness ==
    /\ drive /\ Len(calls) >= 3
    /\ IsStructuralCall(calls[3]) /\ calls[3].ok
    /\ Len(Duplicates(calls[3].requests)) = 2
    /\ Len(Deletes(calls[3].requests)) = 1
    /\ Len(doc) = Len(templateSlides) + 1

---------------------------------------------------------------------------
(* C14 *)

BatchCalls == {k \in 1..Len(calls) : calls[k].api = "presentations.batchUpdate"}

---------------------------------------------------------------------------
(* C15 *)

\* the reads of the request that returned
ReadsReturned == {k \in 1..Len(calls) : calls[k].api = "presentations.get" /\ calls[k].ok}

\* C15: in template mode, when the second read returns fewer than N + 2
\* pages the request has failed with the error of the page-count check of
\* the second read, no fill batch was or is issued, and there is no result.
C15_ShortRereadFailsBeforeFill ==
    (drive /\ Cardinality(ReadsReturned) = 2 /\ Len(finalSlides) < N + 2) =>
        /\ pc = "failed"
        /\ error.message = NotEnoughSlidesMessage
        /\ result = NoResult
        /\ fillRequests = <<>>
        /\ \A k \in 1..Len(calls) : ~IsFillCall(calls[k])
        /\ calls[Len(calls)].api = "presentations.get"
        /\ ~ENABLED Next

\* a structural batch was applied, the second read returned fewer than N + 2
\* pages, and the request failed on the page count
C15_Witness ==
    /\ drive /\ pc = "failed" /\ error.message = NotEnoughSlidesMessage
    /\ Len(calls) = 4 /\ IsStructuralCall(calls[3]) /\ calls[3].ok
    /\ calls[4].api = "presentations.get" /\ calls[4].ok
    /\ Len(finalSlides) < N + 2

---------------------------------------------------------------------------
(* C16 *)

\* the closing page as the first read returned it, and the ids that name it
\* or one of its elements
ClosingPage == templateSlides[Len(templateSlides)]
ClosingIds == ({ClosingPage.objectId} \cup ElementIds(ClosingPage)) \ {NoId}

\* C16: in template mode with a template of at least 3 pages, no duplicate,
\* delete, delete-text or insert-text operation of the structural or the fill
\* batch, planned or sent, names the last page or an element of it, and the
\* last page of the document stays the last page the first read returned.
C16_ClosingPageUntouched ==
    StructuralPlanned =>
        /\ RequestIds(requests) \cap ClosingIds = {}
        /\ RequestIds(fillRequests) \cap ClosingIds = {}
        /\ \A k \in BatchCalls : RequestIds(calls[k].requests) \cap ClosingIds = {}
        /\ doc[Len(doc)] = ClosingPage

\* a finished request of two slides on a 4-page template: pages were
\* duplicated and deleted, text was filled in, and the closing page has a
\* title placeholder that no operation named
C16_Witness ==
    /\ drive /\ pc = "done" /\ N = 2 /\ Len(templateSlides) = 4
    /\ Len(calls) = 5 /\ IsStructuralCall(calls[3]) /\ IsFillCall(calls[5])
    /\ Len(Deletes(requests)) = 1
    /\ ElementIds(ClosingPage) # {}
    /\ Len(fillRequests) >= 6

---------------------------------------------------------------------------
(* C17 *)

\* the remote calls of the blank path, in order
BlankCallOrder ==
    <<"presentations.create", "presentations.get", "presentations.batchUpdate">>

\* every call but the last one returned: a call is issued only after the
\* call before it has returned
OneAfterTheOther == \A k \in 1..(Len(calls) - 1) : calls[k].ok

\* C17 as stated: a request performs at most four remote calls, one after
\* the other, and fewer than four in blank mode.
C17_AtMostFourCalls ==
    /\ Len(calls) <= 4
    /\ ~drive => Len(calls) < 4
    /\ OneAfterTheOther

\* C17, amended: a request performs at most five remote calls in template
\* mode (copy, read, structural batch, re-read, fill batch) and at most three
\* in blank mode (create, read, batch), one after the other.
C17_AtMostFiveCallsThreeInBlankMode ==
    /\ drive => Len(calls) <= 5
    /\ ~drive => (Len(calls) <= 3 /\ IsPrefix(ApiSeq, BlankCallOrder))
    /\ OneAfterTheOther

\* a finished template request that made five calls: the copy, two reads and
\* two batches
C17_Witness ==
    /\ drive /\ pc = "done" /\ Len(calls) = 5
    /\ ApiSeq = <<"drive.files.copy", "presentations.get", "presentations.batchUpdate",
                  "presentations.get", "presentations.batchUpdate">>
    /\ \A k \in 1..5 : calls[k].ok

---------------------------------------------------------------------------
(* C18 *)

IsCreateRequest(r) == r.kind \in {"createSlide", "createShape"}

\* C18: in template mode a request sends at most two batchUpdate calls; a
\* batch that holds a duplicate or a delete holds no text operation, and it is
\* sent before the batch that holds the text operations.  In blank mode a
\* request sends at most one batchUpdate call, and that batch is the whole
\* plan: the slide and shape creations of slides 2 .. N and every text
\* operation.
C18_TwoBatchesThenOne ==
    /\ drive =>
          /\ Cardinality(BatchCalls) <= 2
          /\ \A j, k \in BatchCalls :
                (IsStructuralCall(calls[j]) /\ IsFillCall(calls[k])) => j < k
          /\ \A k \in BatchCalls : \A j \in 1..Len(calls[k].requests) :
                ~IsCreateRequest(calls[k].requests[j])
    /\ ~drive =>
          /\ Cardinality(BatchCalls) <= 1
          /\ \A k \in BatchCalls :
                /\ calls[k].requests = requests
                /\ KindCount(requests, "createSlide") = N - 1
                /\ KindCount(requests, "createShape") = 2 * (N - 1)
                /\ \A j \in 1..Len(requests) :
                      IsCreateRequest(requests[j]) \/ requests[j].kind = "insertText"

\* a finished blank request of three slides: its one batch created two slides
\* and four shapes and inserted text into the first slide and into a new one
C18_Witness ==
    /\ ~drive /\ pc = "done" /\ N = 3 /\ Len(calls) = 3
    /\ BatchCalls = {3} /\ calls[3].ok
    /\ KindCount(calls[3].requests, "createSlide") = 2
    /\ \E j \in 1..Len(calls[3].requests) :
          /\ calls[3].requests[j].kind = "insertText"
          /\ calls[3].requests[j].objectId = BlankTitleTarget
    /\ \E j \in 1..Len(calls[3].requests) :
          /\ calls[3].requests[j].kind = "insertText"
          /\ calls[3].requests[j].objectId = "body_3"
    /\ Len(doc) = 3

---------------------------------------------------------------------------
(* C19 *)

NoCallOf(api) == \A k \in 1..Len(calls) : calls[k].api # api

CreatesBlank ==
    /\ calls[1].api = "presentations.create"
    /\ calls[1].target = args.title
    /\ NoCallOf("drive.files.copy")

\* C19 as stated: a request without template id, or without the Drive
\* client, creates a blank presentation titled args.title and copies
\* nothing; a copy is made only when the template id is given and the Drive
\* client is there.
C19_BlankPathUnlessTemplateIdAndDrive ==
    calls # <<>> =>
        /\ (args.templatePresentationId = Undefined \/ ~drive) => CreatesBlank
        /\ ~NoCallOf("drive.files.copy") =>
              (args.templatePresentationId # Undefined /\ drive)

\* C19, amended: a request without the Drive client creates a blank
\* presentation titled args.title and copies nothing; a request with the
\* Drive client creates nothing and copies the template whose id is given,
\* or the default template when none is given.
C19_TemplatePathWheneverDrive ==
    calls # <<>> =>
        /\ ~drive => CreatesBlank
        /\ drive =>
              /\ calls[1].api = "drive.files.copy"
              /\ calls[1].target =
                    (IF args.templatePresentationId = Undefined
                     THEN DEFAULT_TEMPLATE_ID ELSE args.templatePresentationId)
              /\ NoCallOf("presentations.create")

\* a finished request with the Drive client and without template id: the
\* default template was copied and filled
C19_Witness ==
    /\ drive /\ args.templatePresentationId = Undefined /\ pc = "done"
    /\ calls[1].api = "drive.files.copy" /\ calls[1].target = DEFAULT_TEMPLATE_ID
    /\ fillRequests # <<>>

---------------------------------------------------------------------------
(* C20 *)

\* C20: a remote call that failed is the last call of its request, and a
\* request that failed, on a call or on a check, stays failed: it has an
\* error and no result, and it issues no further call (no retry, no later
\* phase, no rollback); a request that has a result had no failure.
C20_FailureAborts ==
    /\ \A k \in 1..Len(calls) : ~calls[k].ok => (k = Len(calls) /\ pc = "failed")
    /\ error # NoError => pc = "failed"
    /\ pc = "failed" =>
          /\ error.message # ""
          /\ result = NoResult
          /\ ~ENABLED Next
    /\ pc = "done" =>
          /\ error = NoError
          /\ result # NoResult
          /\ \A k \in 1..Len(calls) : calls[k].ok

\* the fill batch failed after the structural batch had been applied: the
\* request has failed, the duplicated pages are still in the document and
\* the failed batch is the last call
C20_Witness ==
    /\ drive /\ pc = "failed" /\ Len(calls) = 5
    /\ IsStructuralCall(calls[3]) /\ calls[3].ok
    /\ IsFillCall(calls[5]) /\ ~calls[5].ok
    /\ Len(doc) > Len(templateSlides)
    /\ result = NoResult

---------------------------------------------------------------------------
(* C21 *)

\* the index (from 0) of the page of pages that holds the element id
PageOf(pages, id) ==
    (CHOOSE p \in 1..Len(pages) :
        \E j \in 1..Len(pages[p].pageElements) :
            id # NoId /\ pages[p].pageElements[j].objectId = id) - 1

\* C21: in template mode every operation of the fill batch names an element
\* of one of the pages 0 .. N of the second read; an insert into an element
\* of page i + 1 carries the trimmed title or the composed body of slides[i]
\* and nothing of another slide; and the operations are ordered by page, so
\* those of slide i stand before those of slide i + 1.
C21_SlideIGoesToPageIPlus1 ==
    TemplateFilled =>
        LET ids == AllElementIds(finalSlides)
            pg == [k \in 1..Len(fillRequests) |->
                      PageOf(finalSlides, fillRequests[k].objectId)]
        IN /\ \A k \in 1..Len(fillRequests) :
                 /\ fillRequests[k].objectId \in ids
                 /\ pg[k] <= N
                 /\ (pg[k] >= 1 /\ fillRequests[k].kind = "insertText") =>
                       \/ fillRequests[k].text = SlideTitle(args.slides[pg[k]])
                       \/ fillRequests[k].text = buildSlideBodyText(args.slides[pg[k]])
           /\ \A k \in 1..(Len(fillRequests) - 1) : pg[k] <= pg[k + 1]
           /\ \A k \in 1..Len(calls) :
                 IsFillCall(calls[k]) => calls[k].requests = fillRequests

\* a finished template request of three slides, the first with title and
\* body and the second without title: pages 1, 2 and 3 of the second read
\* each received the text of their own slide
C21_Witness ==
    /\ drive /\ pc = "done" /\ N = 3 /\ fillRequests # <<>>
    /\ args.slides[1] = FullSlide /\ args.slides[2] = EmptyBulletSlide
    /\ \A i \in 1..3 : TitleTargetAt(i) # NoId /\ BodyTargetAt(i) # NoId
    /\ \E k \in 1..Len(fillRequests) :
          /\ fillRequests[k] = InsertText(BodyTargetAt(1), buildSlideBodyText(FullSlide))
          /\ \E j \in (k + 1)..Len(fillRequests) :
                fillRequests[j] =
                   InsertText(BodyTargetAt(2), buildSlideBodyText(EmptyBulletSlide))

---------------------------------------------------------------------------
(* C22 *)

\* reqs holds a delete of all text of t directly followed by the insert of
\* text into t
HasPair(reqs, t, text) ==
    \E k \in 1..(Len(reqs) - 1) :
        reqs[k] = DeleteText(t) /\ reqs[k + 1] = InsertText(t, text)

\* the second read passed the page-count check, so the fill plan was made
FillPlanned ==
    /\ drive
    /\ Cardinality(ReadsReturned) = 2
    /\ EnoughSlides(finalSlides, N)

\* the read of the blank path returned, so its plan was made
BlankPlanMade == ~drive /\ Len(calls) >= 2 /\ calls[2].ok

\* every content page of template mode that has a title target gets the
\* delete-then-insert pair of the trimmed title of its slide
TitlePairsTemplate ==
    FillPlanned =>
        \A i \in 1..N :
           TitleTargetAt(i) # NoId =>
              HasPair(fillRequests, TitleTargetAt(i), SlideTitle(args.slides[i]))

\* C22 as stated: in template mode and in blank mode, every content page
\* that has a title target gets a delete-then-insert pair for the trimmed
\* title of its slide, also when that title is empty or absent.
C22_TitlePairAlwaysBothModes ==
    /\ TitlePairsTemplate
    /\ BlankPlanMade =>
          /\ BlankTitleTarget # NoId =>
                HasPair(requests, BlankTitleTarget, SlideTitle(args.slides[1]))
          /\ \A i \in 2..N :
                HasPair(requests, "title_" \o ToString(i), SlideTitle(args.slides[i]))

\* C22, amended: in template mode every content page that has a title target
\* gets a delete-then-insert pair for the trimmed title of its slide, also
\* when that title is empty or absent.  In blank mode nothing is deleted: the
\* title target of page 0 gets one insert, of the trimmed title of slides[0]
\* or of the deck title when slides[0] has no title, and the title box of a
\* new slide gets one insert of the trimmed title when that is not empty and
\* none otherwise.
C22_TitlePairTemplateInsertBlank ==
    /\ TitlePairsTemplate
    /\ BlankPlanMade =>
          /\ KindCount(requests, "deleteText") = 0
          /\ BlankTitleTarget # NoId =>
                InsertsInto(requests, BlankTitleTarget)[1] =
                   InsertText(BlankTitleTarget, FirstTitle(args))
          /\ \A i \in 2..N :
                InsertsInto(requests, "title_" \o ToString(i)) =
                   (IF SlideTitle(args.slides[i]) # <<>>
                    THEN <<InsertText("title_" \o ToString(i), SlideTitle(args.slides[i]))>>
                    ELSE <<>>)

\* a finished template request whose second slide has no title: the title
\* target of its page was cleared and given the empty text
C22_Witness ==
    /\ drive /\ pc = "done" /\ N >= 2
    /\ args.slides[2].title = Undefined
    /\ TitleTargetAt(2) # NoId
    /\ HasPair(fillRequests, TitleTargetAt(2), <<>>)
    /\ IsFillCall(calls[Len(calls)])

---------------------------------------------------------------------------
(* C23 *)

\* every insert of reqs into one of the elements ids is at index 0 and stands
\* right after a delete of all text of the same element
InsertsFollowDeletes(reqs, ids) ==
    \A k \in 1..Len(reqs) :
        (reqs[k].kind = "insertText" /\ reqs[k].objectId \in ids) =>
            /\ reqs[k].insertionIndex = 0
            /\ k > 1
            /\ reqs[k - 1] = DeleteText(reqs[k].objectId)

InsertsFollowDeletesTemplate ==
    drive =>
        /\ InsertsFollowDeletes(fillRequests, AllElementIds(finalSlides))
        /\ \A k \in BatchCalls :
              InsertsFollowDeletes(calls[k].requests, AllElementIds(finalSlides))

\* C23 as stated: every insert into a placeholder the resolver found, in
\* template mode and on page 0 of blank mode, is at index 0 and stands right
\* after a delete of all text of the same element in the same batch.
C23_InsertAfterDeleteBothModes ==
    /\ InsertsFollowDeletesTemplate
    /\ (BlankPlanMade /\ doc # <<>>) =>
          InsertsFollowDeletes(requests, ElementIds(doc[1]))

\* C23, amended: in template mode every insert is at index 0 and stands
\* right after a delete of all text of the same element in the same batch.
\* On page 0 of blank mode the inserts into the placeholders are at index 0
\* and no delete stands before them: the batch holds no delete-text.
C23_InsertAfterDeleteTemplateOnly ==
    /\ InsertsFollowDeletesTemplate
    /\ (BlankPlanMade /\ doc # <<>>) =>
          /\ KindCount(requests, "deleteText") = 0
          /\ \A k \in 1..Len(requests) :
                requests[k].kind = "insertText" => requests[k].insertionIndex = 0

\* a fill batch was sent that clears and fills the title of the first page
\* and the title and the body of a content page
C23_Witness ==
    /\ drive /\ pc = "done" /\ IsFillCall(calls[Len(calls)])
    /\ TitleTargetAt(0) # NoId /\ TitleTargetAt(1) # NoId /\ BodyTargetAt(1) # NoId
    /\ TitleTargetAt(1) # BodyTargetAt(1)
    /\ HasPair(calls[Len(calls)].requests, TitleTargetAt(0), args.title)
    /\ HasPair(calls[Len(calls)].requests, BodyTargetAt(1),
               buildSlideBodyText(args.slides[1]))

---------------------------------------------------------------------------
(* C24 *)

\* the positions of reqs that hold a createSlide at insertion index i
CreateSlidesAt(reqs, i) ==
    {k \in 1..Len(reqs) : reqs[k].kind = "createSlide" /\ reqs[k].insertionIndex = i}

\* the page a createSlide and its two createShape requests make
NewPage(i) ==
    [objectId |-> "slide_" \o ToString(i + 1),
     pageElements |-> <<[objectId |-> "title_" \o ToString(i + 1), type |-> "NONE"],
                        [objectId |-> "body_" \o ToString(i + 1), type |-> "NONE"]>>]

\* C24: in blank mode the batch holds, for every i in 1 .. N-1, exactly one
\* createSlide at insertion index i (blank layout), directly followed by the
\* createShape of the title box and then the createShape of the body box on
\* that slide, and no other createSlide or createShape; no slide is created
\* at index 0; and when the batch was applied to a document of one page the
\* document holds that page and then the N - 1 new pages in input order,
\* N pages in all.
C24_BlankCreatesSlides1ToNMinus1 ==
    /\ BlankPlanMade =>
          /\ \A i \in 1..(N - 1) :
                /\ Cardinality(CreateSlidesAt(requests, i)) = 1
                /\ \A k \in CreateSlidesAt(requests, i) :
                      /\ requests[k] = CreateSlide("slide_" \o ToString(i + 1), i)
                      /\ requests[k + 1].kind = "createShape"
                      /\ requests[k + 1].objectId = "title_" \o ToString(i + 1)
                      /\ requests[k + 1].pageObjectId = requests[k].objectId
                      /\ requests[k + 2].kind = "createShape"
                      /\ requests[k + 2].objectId = "body_" \o ToString(i + 1)
                      /\ requests[k + 2].pageObjectId = requests[k].objectId
          /\ CreateSlidesAt(requests, 0) = {}
          /\ KindCount(requests, "createSlide") = N - 1
          /\ KindCount(requests, "createShape") = 2 * (N - 1)
    /\ (~drive /\ pc = "done" /\ doc # <<>>) =>
          /\ Len(doc) = N
          /\ doc[1].objectId = "p0"
          /\ \A i \in 1..(N - 1) : doc[i + 1] = NewPage(i)

\* a finished blank request of three slides on a document of one page: the
\* batch was applied and the document holds three pages
C24_Witness ==
    /\ ~drive /\ pc = "done" /\ N = 3
    /\ Len(calls) = 3 /\ calls[3].api = "presentations.batchUpdate" /\ calls[3].ok
    /\ doc = <<doc[1], NewPage(1), NewPage(2)>>
    /\ doc[1].objectId = "p0"

---------------------------------------------------------------------------
(* C25 *)

\* what the call with arguments a and Drive client d plans and leaves in its
\* presentation when it runs alone and no remote call fails
AloneStart(a, d) ==
    IF d THEN StoredTemplates[TemplateIdOf(a)] ELSE <<MkPage(0, TRUE, TaggedShape)>>

AlonePlan(a, d) ==
    IF d THEN StructuralRequests(AloneStart(a, d), Len(a.slides))
    ELSE BlankRequests(AloneStart(a, d), a)

AlonePages(a, d) ==
    ApplyBatch([ok |-> TRUE, pages |-> AloneStart(a, d), next |-> 1], AlonePlan(a, d)).pages

AloneFill(a, d) == IF d THEN FillRequests(AlonePages(a, d), a) ELSE <<>>

\* C25: with two calls in flight at once, their awaits interleaved in any
\* order, every presentations.get and batchUpdate of a call names the
\* presentation that the same call copied or created, which is never the
\* presentation of the other call nor a template; the templates stay as they
\* were; and a call that returns has planned the batches, left the pages and
\* returned the title and own id that it does when it runs alone.
C25_ConcurrentCallsAreIndependent ==
    /\ store.templates = StoredTemplates
    /\ \A r \in Callers :
          LET q == running[r]
          IN /\ \A k \in 1..Len(q.calls) :
                   IF k = 1
                   THEN q.calls[k].api \in {"drive.files.copy", "presentations.create"}
                   ELSE /\ q.calls[k].api \in {"presentations.get",
                                               "presentations.batchUpdate"}
                        /\ q.calls[k].target = q.presentationId
             /\ q.presentationId # NoId =>
                   /\ q.presentationId \in {DeckId(k) : k \in 1..Len(store.created)}
                   /\ \A o \in Callers \ {r} :
                         running[o].presentationId # q.presentationId
             /\ q.pc = "done" =>
                   /\ q.requests = AlonePlan(q.args, q.drive)
                   /\ q.fillRequests = AloneFill(q.args, q.drive)
                   /\ Stored(q.presentationId).pages = AlonePages(q.args, q.drive)
                   /\ q.result = [presentationId |-> q.presentationId,
                                  editUrl |-> EditUrl(q.presentationId),
                                  title |-> q.args.title]

\* both calls are in flight on copies of the same template with different
\* slides: each has restructured its own copy and planned its fill, neither
\* has returned
C25_Witness ==
    /\ \A r \in Callers :
          /\ running[r].drive /\ running[r].pc = "fill"
          /\ running[r].args.templatePresentationId = <<"t">>
          /\ Len(running[r].calls) = 4
    /\ running[1].args.slides # running[2].args.slides
    /\ running[1].presentationId # running[2].presentationId
    /\ Len(store.created) = 2
    /\ Len(store.created[1].pages) # Len(store.created[2].pages)

---------------------------------------------------------------------------
(* C26 *)

\* a body the claim calls malformed
Malformed(b) ==
    \/ b.title = Undefined \/ b.title = <<>>
    \/ ~b.slides.present \/ b.slides.list = <<>>
    \/ \E i \in 1..Len(b.slides.list) :
          b.slides.list[i].slideNumber.present /\ b.slides.list[i].slideNumber.value <= 0
    \/ b.templatePresentationId = <<>>

\* C26: on POST /slides and on callTool a malformed body (missing or empty
\* title, missing or empty slides, a slideNumber that is not positive, an
\* empty templatePresentationId) is answered with an error without any remote
\* call and without the engine being started; when the engine runs, the body
\* was well formed and args.slides holds at least one slide.
C26_MalformedRejectedBeforeEngine ==
    entry # "none" =>
        /\ Malformed(body) =>
              /\ pc \in {"idle", "rejected"}
              /\ calls = <<>>
              /\ pc = "rejected" =>
                    response = (IF entry = "POST /slides"
                                THEN "400 Invalid request body" ELSE "isError")
        /\ pc \notin {"idle", "rejected"} =>
              /\ ~Malformed(body)
              /\ Len(args.slides) >= 1
              /\ Len(args.title) >= 1
              /\ args = Parsed(body)

\* callTool has answered a body with an empty slides list with an error, and
\* no remote call was made
C26_Witness ==
    /\ pc = "rejected" /\ calls = <<>>
    /\ entry = "callTool" /\ response = "isError"
    /\ body.title = DeckTitle /\ body.templatePresentationId = Undefined
    /\ body.slides = [present |-> TRUE, list |-> <<>>]

---------------------------------------------------------------------------
(* C27: a template of two slides                                           *)

\* the first read of a template-mode request returned exactly p slides
FirstReadHas(p) ==
    /\ drive
    /\ Len(calls) >= 2
    /\ calls[2].api = "presentations.get" /\ calls[2].ok
    /\ Len(templateSlides) = p

\* C27: a template with a title slide and a content-layout slide but no
\* thank-you slide (2 slides) is accepted: the request is not failed for the
\* number of slides of the template.
C27_TwoSlideTemplateAccepted ==
    FirstReadHas(2) => ~(pc = "failed" /\ error.message = TooFewSlidesMessage)

---------------------------------------------------------------------------
(* C28: the title target and the body target of a page                     *)

\* the resolver's two targets on page i of the second read are not one element
TargetsDifferAt(i) ==
    TitleTargetAt(i) # NoId => TitleTargetAt(i) # BodyTargetAt(i)

\* no deleteText of the batch names an element an earlier insertText of the
\* same batch wrote into
NoDeleteAfterInsert(reqs) ==
    \A j \in 1..Len(reqs) : \A k \in (j + 1)..Len(reqs) :
        ~(/\ reqs[j].kind = "insertText"
          /\ reqs[k].kind = "deleteText"
          /\ reqs[k].objectId = reqs[j].objectId)

\* C28: for every page the title target and the body target returned by the
\* placeholder resolver are different elements, the index-1 fallback included,
\* so within one fill batch the body delete-then-insert never erases the title
\* text the same batch wrote.
C28_TitleAndBodyTargetsDiffer ==
    TemplateFilled =>
        /\ \A i \in 0..(Len(finalSlides) - 1) : TargetsDifferAt(i)
        /\ NoDeleteAfterInsert(fillRequests)

---------------------------------------------------------------------------
(* C29: the elements the fill batch names                                  *)

\* the requests pushed for page i of the second read: those of the first
\* slide for i = 0, those of iteration i - 1 of the loop for i >= 1
FillOfPage(i) ==
    IF i = 0 THEN TitleSlideFill(finalSlides, args.title)
    ELSE ContentSlideFill(finalSlides, args.slides, i - 1)

RECURSIVE MeantFor(_)
\* the page each request of the fill batch was pushed for, in the order of
\* the batch, for the requests of the pages from i on
MeantFor(i) ==
    IF i > N THEN <<>>
    ELSE [m \in 1..Len(FillOfPage(i)) |-> i] \o MeantFor(i + 1)

\* id is the identifier of an element of els that has a role hint or stands
\* at index 1
IsTargetOf(els, id) ==
    \E j \in 1..Len(els) :
        /\ els[j].objectId = id
        /\ els[j].type \in {"TITLE", "BODY", "SUBTITLE"} \/ j = 2

\* C29: every text operation of a template-mode fill batch names a non-empty
\* element id that belongs to the page it is meant for in the re-read page
\* list; an element without an identifier is never the title or body target,
\* neither by hint nor by the index-1 fallback.
C29_FillNamesElementsOfItsPage ==
    TemplateFilled =>
        LET page == MeantFor(0)
        IN /\ Len(fillRequests) = Len(page)
           /\ \A k \in 1..Len(fillRequests) :
                 /\ IsTextRequest(fillRequests[k])
                 /\ fillRequests[k].objectId # NoId
                 /\ IsTargetOf(ElementsAt(finalSlides, page[k]), fillRequests[k].objectId)
           /\ \A i \in 0..N :
                 LET els == ElementsAt(finalSlides, i)
                     ph == getTitleAndBodyPlaceholders(els)
                 IN /\ ph.title # NoId => IsTargetOf(els, ph.title)
                    /\ ph.body # NoId => IsTargetOf(els, ph.body)
                    /\ (Len(els) >= 2 /\ els[2].objectId = NoId
                          /\ WithId(els, Hinted(els, {"BODY", "SUBTITLE"})) = {}) =>
                             ph.body = NoId

\* a finished template request whose first page has no hints and an element
\* without identifier at index 1, so that it has no target at all, and whose
\* content page has a BODY-hinted element without identifier before one
\* with identifier: the body of the slide was written into the second
C29_Witness ==
    /\ drive /\ pc = "done" /\ fillRequests # <<>>
    /\ args.slides[1] = FullSlide
    /\ LET els == ElementsAt(finalSlides, 0)
       IN /\ Len(els) = 2 /\ els[2].objectId = NoId
          /\ TitleTargetAt(0) = NoId /\ BodyTargetAt(0) = NoId
    /\ LET els == ElementsAt(finalSlides, 1)
       IN /\ Len(els) = 4 /\ els[3].objectId = NoId /\ els[3].type = "BODY"
          /\ \E k \in 1..Len(fillRequests) :
                fillRequests[k] = InsertText(els[4].objectId, buildSlideBodyText(FullSlide))

---------------------------------------------------------------------------
(* C30: the way of a failure to the caller                                 *)

\* C30: every failure raised inside createPresentationFromContent, on the
\* blank path and on the template path alike, reaches the caller only after
\* passing through handleGoogleApiError.
C30_EveryFailureIsHandled ==
    pc = "failed" => error.handled

---------------------------------------------------------------------------
(* C31: no batch without requests                                          *)

\* the structural plan of a template-mode request was made and holds nothing
StructuralPlanEmpty == StructuralPlanned /\ requests = <<>>

\* C31: no batchUpdate call carries an empty request list.  When the
\* structural plan is empty the structural call is skipped, the second read
\* follows the first directly and its page count is checked; when no fill
\* request was produced the fill call is skipped and the request returns its
\* result; when the blank path produced no request its batch is skipped and
\* the request returns its result.
C31_NoEmptyBatch ==
    /\ \A k \in 1..Len(calls) :
          calls[k].api = "presentations.batchUpdate" => calls[k].requests # <<>>
    /\ StructuralPlanEmpty =>
          /\ \A k \in 1..Len(calls) : ~IsStructuralCall(calls[k])
          /\ pc # "structural"
          /\ Len(calls) >= 3 =>
                /\ calls[3].api = "presentations.get"
                /\ (calls[3].ok /\ ~EnoughSlides(finalSlides, N)) =>
                      pc = "failed" /\ error.message = NotEnoughSlidesMessage
          /\ pc \in {"fill", "done"} => Len(calls) >= 3 /\ EnoughSlides(finalSlides, N)
    /\ (FillPlanned /\ fillRequests = <<>>) =>
          /\ pc = "done"
          /\ result = [presentationId |-> presentationId,
                       editUrl |-> EditUrl(presentationId), title |-> args.title]
          /\ BatchCalls \subseteq {3}
    /\ (BlankPlanMade /\ requests = <<>>) =>
          /\ pc = "done"
          /\ result = [presentationId |-> presentationId,
                       editUrl |-> EditUrl(presentationId), title |-> args.title]
          /\ BatchCalls = {}

\* a finished template request of one slide on a template of three slides
\* whose pages give no target: neither batch was sent, the two reads were
C31_Witness ==
    /\ drive /\ pc = "done" /\ N = 1 /\ Len(templateSlides) = 3
    /\ requests = <<>> /\ fillRequests = <<>>
    /\ ApiSeq = <<"drive.files.copy", "presentations.get", "presentations.get">>
    /\ result.presentationId = "deck"

---------------------------------------------------------------------------
(* C32: the order of the blank-mode batch                                  *)

\* request k of reqs creates an object
Creates(reqs, k) == reqs[k].kind \in {"createSlide", "createShape"}

\* a request of kind kind that creates id stands before position k
CreatedBefore(reqs, k, kind, id) ==
    \E j \in 1..(k - 1) : reqs[j].kind = kind /\ reqs[j].objectId = id

\* the ids of the elements of the first page of the presentation
FirstPageIds == IF doc = <<>> THEN {} ELSE ElementIds(doc[1])

\* C32: in the blank-mode batch every request names only objects that exist
\* when it is applied in order: a createShape comes after the createSlide of
\* its page, an insertText names an element of the first page or a box an
\* earlier createShape made, the ids created in one batch are pairwise
\* distinct and are slide_k, title_k, body_k for k in 2 .. N; and on a
\* presentation of one page the store applies the whole batch.
C32_BlankBatchNamesExistingObjects ==
    /\ BlankPlanMade =>
          /\ \A k \in 1..Len(requests) :
                /\ requests[k].kind \in {"createSlide", "createShape", "insertText"}
                /\ requests[k].objectId # NoId
                /\ requests[k].kind = "createShape" =>
                      CreatedBefore(requests, k, "createSlide", requests[k].pageObjectId)
                /\ requests[k].kind = "insertText" =>
                      \/ requests[k].objectId \in FirstPageIds
                      \/ CreatedBefore(requests, k, "createShape", requests[k].objectId)
                /\ Creates(requests, k) =>
                      /\ \A j \in 1..(k - 1) :
                            Creates(requests, j) => requests[j].objectId # requests[k].objectId
                      /\ requests[k].objectId \notin FirstPageIds
                      /\ \E n \in 2..N :
                            requests[k].objectId \in
                               {"slide_" \o ToString(n), "title_" \o ToString(n),
                                "body_" \o ToString(n)}
    /\ (pc = "blankBatch" /\ Len(doc) = 1) =>
          ApplyBatch([ok |-> TRUE, pages |-> doc, next |-> nextId], requests).ok

\* a finished blank request of three slides, the third with title and body,
\* on a presentation of one page with a title and a body target: the batch
\* wrote into the first page and into the two boxes of slide_3
C32_Witness ==
    /\ ~drive /\ pc = "done" /\ N = 3 /\ args.slides[3] = FullSlide
    /\ Len(doc) = 3
    /\ BlankTitleTarget # NoId
    /\ \E k \in 1..Len(requests) :
          /\ requests[k] = InsertText("body_3", buildSlideBodyText(FullSlide))
          /\ requests[k - 1] = InsertText("title_3", SlideTitle(FullSlide))
    /\ requests[1] = InsertText(BlankTitleTarget, FirstTitle(args))

---------------------------------------------------------------------------
(* C33: more pages than N + 2 after the structural batch                   *)

\* the second read of a template-mode request returned more than N + 2 slides
RereadHasMore ==
    /\ drive
    /\ Cardinality(ReadsReturned) = 2
    /\ Len(finalSlides) > N + 2

\* the ids of the elements of the pages of pages at an index greater than n
ElementIdsAfter(pages, n) ==
    UNION {ElementIds(pages[p]) : p \in (n + 2)..Len(pages)}

\* C33: when the second read yields more than N + 2 pages the request does
\* not fail on the page count: the fill plan is made from the pages 0 .. N,
\* no request of it names an element of a page at an index greater than N,
\* and the request fails only if the fill call itself fails.
C33_MorePagesThanNeededIsAccepted ==
    RereadHasMore =>
        /\ fillRequests = FillRequests(SubSeq(finalSlides, 1, N + 1), args)
        /\ RequestIds(fillRequests) \cap ElementIdsAfter(finalSlides, N) = {}
        /\ \A k \in 1..Len(calls) :
              calls[k].api = "presentations.batchUpdate" =>
                 RequestIds(calls[k].requests) \cap ElementIdsAfter(finalSlides, N) = {}
        /\ pc \in {"fill", "done", "failed"}
        /\ pc = "failed" =>
              /\ error.message = "remote"
              /\ IsFillCall(calls[Len(calls)]) /\ ~calls[Len(calls)].ok

\* a finished template request of two slides whose second read returned five
\* pages: the in-between template page without identifier is still there,
\* has a title and a body element, and nothing was written into it
C33_Witness ==
    /\ drive /\ pc = "done" /\ N = 2 /\ Len(finalSlides) = 5
    /\ finalSlides[4].objectId = NoId
    /\ ElementIds(finalSlides[4]) # {}
    /\ fillRequests # <<>>
    /\ \E k \in 1..Len(fillRequests) : fillRequests[k].objectId \in ElementIds(finalSlides[3])
    /\ result.presentationId = "deck"

---------------------------------------------------------------------------
(* C34: the responses of handleMcpRequest                                  *)

\* handleMcpRequest has returned or thrown
Settled == response # "none"

\* what the handler answers without calling a tool: the error of a body
\* without method, of an unknown method, of a tools/call without a string
\* name
ErrorFor(r) ==
    IF ~r.hasMethod THEN -32600
    ELSE IF r.method = "other" THEN -32601
    ELSE IF r.method = "tools/call"
            /\ (r.params # "object" \/ r.name \in {"undefined", "empty", "number"})
    THEN -32602
    ELSE 0

\* the answers of a request that reached a tool, by name
ToolAnswers ==
    /\ (rpc.hasMethod /\ rpc.method = "tools/call" /\ rpc.params = "object"
           /\ rpc.name = "unknown" /\ Settled) =>
          responses = <<JsonRpcToolResult(TRUE)>> /\ calls = <<>>
    /\ (ReachesTool(rpc) /\ Settled) =>
          responses = <<JsonRpcToolResult(pc # "done")>>
    /\ (ReachesTool(rpc) /\ pc = "failed" /\ Settled) =>
          responses = <<JsonRpcToolResult(TRUE)>>

\* C34: handleMcpRequest sends exactly one response for every request body:
\* never two, and one when it has settled, which it does by returning; the
\* error -32600 for a body without method, -32601 for an unknown method,
\* -32602 for tools/call without a string name; a failure of the tool becomes
\* a result with isError = true; an unknown tool name yields an error result
\* without any remote call.
C34_ExactlyOneResponse ==
    entry = "POST /mcp" =>
        /\ Len(responses) <= 1
        /\ Settled => response = "returned" /\ Len(responses) = 1
        /\ (Settled /\ ErrorFor(rpc) # 0) =>
              responses = <<JsonRpcError(ErrorFor(rpc))>> /\ calls = <<>>
        /\ ToolAnswers

\* the same, for the bodies whose params is not null
C34_ExactlyOneResponseUnlessNullParams ==
    (entry = "POST /mcp" /\ ~(rpc.hasMethod /\ rpc.method = "tools/call"
                               /\ rpc.params = "null")) =>
        /\ Len(responses) <= 1
        /\ Settled => response = "returned" /\ Len(responses) = 1
        /\ (Settled /\ ErrorFor(rpc) # 0) =>
              responses = <<JsonRpcError(ErrorFor(rpc))>> /\ calls = <<>>
        /\ ToolAnswers

====
